---- MODULE Spec2Model ----
(***************************************************************************)
(* State-machine model of the photo editor / ad-variation generator        *)
(* (src/App.tsx and the image service adapter).                            *)
(*                                                                         *)
(* Every React state cell of App is a variable.  Every handler is one      *)
(* action, enabled in any state (the handlers carry their own guards; a    *)
(* failed guard is a branch of the action).  An awaited service call       *)
(* splits a handler in two actions: the part before the await, which       *)
(* records the request together with the values its closure captured, and  *)
(* the part after it, which runs with those captured values.               *)
(*                                                                         *)
(* null is <<>> and a non-null value v is <<v>>.  historyIndex is 0-based  *)
(* as in the source; history is a TLA+ sequence, so history[i] of the      *)
(* source is history[i + 1] here.                                          *)
(***************************************************************************)
EXTENDS Integers, Sequences, FiniteSets, TLC

\* ------------------------------------------------------------- bounds
\* images produced in one run by edit requests and crops together
MaxEdits == 2
\* variations started one at a time in one run
MaxVariations == 1
\* mix batches started in one run
MaxBatches == 1
\* ChatBot mounts (page loads) in one run
MaxMounts == 2
\* chat messages posted in one run
MaxSends == 2
\* pieces of one assistant message
MaxTokens == 3
\* object URLs created in one run
MaxUrls == 6
\* handleResize calls made in one run
MaxResizes == 2

VARIABLES
    viewMode,          \* 'editor' | 'generator'
    history,           \* File[]
    historyIndex,      \* number, -1 when the history is empty
    prompt,            \* the localized-edit instruction
    isLoading,
    error,             \* string | null
    editHotspot,       \* {x, y} | null, natural-image pixels
    displayHotspot,    \* {x, y} | null, display pixels
    activeTab,         \* 'retouch' | 'adjust' | 'filters' | 'crop'
    crop,              \* Crop | undefined
    completedCrop,     \* PixelCrop | undefined
    adBaseImage,       \* File | null
    variations,        \* VariationResult[]
    editRequests,      \* edit requests awaiting the image service
    variationRequests, \* variation requests awaiting the image service
    nextId,            \* images produced so far by edits and crops
    nextVariationId,   \* variations created so far
    lastOp,            \* the handler that ran last, its outcome and input
    customAdPrompt,    \* the custom variation instruction
    nextBatch,         \* mix batches started so far
    variationOutcomes, \* how each answered variation request ended
    serviceCall,       \* the service adapter call made last: input and outcome
    calmEditorSessionId, \* localStorage['calmEditorSessionId'], null when absent
    chatBots,          \* the sessionId state of every mounted ChatBot
    chatPayloads,      \* the payloads handleSendMessage has posted
    nextSessionId,     \* identifiers crypto.randomUUID has produced for ChatBot
    chatMessages,      \* messages of every mounted ChatBot
    chatLoading,       \* isLoading of every mounted ChatBot
    chatRequests,      \* webhook requests awaiting their response
    chatReply,         \* the webhook response handled last and the text shown for it
    rendered,          \* the assistant message rendered last and its elements
    chatAttachment,    \* File | null, attachment of the ChatBot of the page
    objectUrls,        \* the object URLs created and not revoked
    urlsMade,          \* object URLs created so far
    urlEffects,        \* per object-URL effect: the dependency it last ran for, its URL
    resizeModalOpen,   \* boolean
    imageToResize,     \* File | null
    resizeModal,       \* the state of MagicResizeModal, null while it is not mounted
    resizeRequests,    \* handleResize calls awaiting the image service
    resizeCalls        \* handleResize calls made so far

vars == <<viewMode, history, historyIndex, prompt, isLoading, error,
          editHotspot, displayHotspot, activeTab, crop, completedCrop,
          adBaseImage, variations, editRequests, variationRequests,
          nextId, nextVariationId, lastOp, customAdPrompt, nextBatch,
          variationOutcomes, serviceCall, calmEditorSessionId, chatBots, chatPayloads,
          nextSessionId, chatMessages, chatLoading, chatRequests, chatReply,
          rendered, chatAttachment, objectUrls, urlsMade, urlEffects,
          resizeModalOpen, imageToResize, resizeModal, resizeRequests, resizeCalls>>

editorCells == <<history, historyIndex, prompt, isLoading, error,
                 editHotspot, displayHotspot, activeTab, crop, completedCrop>>

\* The ChatBot component and the browser storage it uses.
chatCells == <<calmEditorSessionId, chatBots, chatPayloads, nextSessionId>>
\* The conversation of the ChatBot component.
\* The object URLs of the page and the attachment of its ChatBot.
browserCells == <<chatAttachment, objectUrls, urlsMade, urlEffects>>
\* The resize modal of the generator view.
modalCells == <<resizeModalOpen, imageToResize, resizeModal, resizeRequests, resizeCalls>>
conversationCells == <<chatMessages, chatLoading, chatRequests, chatReply, rendered,
                       browserCells, modalCells>>
\* What the handlers of the editor view leave alone.
otherCells == <<customAdPrompt, nextBatch, variationOutcomes, serviceCall,
                chatCells, conversationCells>>

Null == <<>>
Some(v) == <<v>>
Val(o) == o[1]

\* lastOp records the handler that ran last (the inline setState callbacks
\* as "setState"), how it ended, and what the properties below need of its
\* input and of the state it ran in.
Op(name, res, arg) == [op |-> name, res |-> res, arg |-> arg]

\* ------------------------------------------------------------- values
Tabs == {"retouch", "crop", "adjust", "filters"}
ViewModes == {"editor", "generator"}

\* A File is an opaque blob: where it came from and which one it is.  The
\* files the user can pick in a file chooser:
UploadFiles == {[src |-> "upload", n |-> 1], [src |-> "upload", n |-> 2]}

\* The one file the runs that need no second file pick.
SessionFiles == {[src |-> "upload", n |-> 1]}

\* The instruction field: empty or a real instruction.
Prompts == {"", "cambia el color"}
\* String.prototype.trim on the values above and on a blank value
\* (mutant: the value is tested as typed)
trim_asTyped(s) == s
trim(s) == IF s = " " THEN "" ELSE s

\* Geometry of the displayed image (natural size / display size).
naturalWidth == 1600
naturalHeight == 1200
clientWidth == 400
clientHeight == 300
\* Click offsets inside the displayed image.
Clicks == {[x |-> 120, y |-> 80]}
\* Math.round of the non-negative rational a / b
RoundDiv(a, b) == (2 * a + b) \div (2 * b)

\* A crop region as react-image-crop reports it.
CropRegions == {[x |-> 10, y |-> 10, width |-> 100, height |-> 50]}

\* What the image service can answer to one request: a data URL
\* 'data:<mime>;base64,<data>' (handleApiResponse), or a thrown Error.
DataUrl(mime, data) == [mime |-> mime, data |-> data]
ServiceErrors == {"La solicitud fue bloqueada."}
ServiceOutcomes(context, id) ==
    {[ok |-> TRUE, url |-> DataUrl("image/png", id)],
     [ok |-> TRUE, url |-> DataUrl("", id)]}
    \cup {[ok |-> FALSE, message |-> m] : m \in ServiceErrors}

\* dataURLtoFile: throws when the MIME type between ':' and ';' is empty.
dataURLtoFileThrows(dataurl) == dataurl.mime = ""
dataURLtoFile(dataurl, src) == [src |-> src, n |-> dataurl.data]

\* ------------------------------------------------------------- derived
currentImageOf(h, i) == IF i >= 0 /\ i < Len(h) THEN Some(h[i + 1]) ELSE Null
currentImage == currentImageOf(history, historyIndex)
originalImage == IF Len(history) > 0 THEN Some(history[1]) ELSE Null

canUndo == historyIndex > 0
canRedo == historyIndex < Len(history) - 1

\* history.slice(0, historyIndex + 1)
slice(h, n) == SubSeq(h, 1, IF n < 0 THEN 0 ELSE IF n > Len(h) THEN Len(h) ELSE n)

\* addImageToHistory: computed from the history and cursor its closure holds.
\* (mutant: the redo branch is kept)
newHistoryOf_noTruncate(h, i, f) == Append(h, f)
newHistoryOf(h, i, f) == Append(slice(h, i + 1), f)
\* (mutant: the cursor is put one past the new image)
newIndexOf_offByOne(newHistory) == Len(newHistory)
newIndexOf(newHistory) == Len(newHistory) - 1


\* The <img ref={imgRef}> element is mounted when the editor view shows an
\* image: editor view, no error panel, a current image.
imgRefCurrent == viewMode = "editor" /\ error = Null /\ currentImage # Null

\* A user-visible message.  The text a failed request appends to its message
\* (the service's own wording) is left out.
Msg(text) == Some(text)

\* What lastOp keeps of a commit: the image's id, how many entries lay beyond
\* the cursor when it ran, and whether the closure that ran it held the
\* history and cursor of that moment.
CommitInfo(id, h, i) ==
    [id |-> id, dropped |-> Len(history) - (historyIndex + 1),
     fresh |-> (h = history /\ i = historyIndex)]

\* What lastOp keeps of a load: the file, and whether hotspot, crop selection,
\* error and a history of several entries were all there to be replaced.
LoadInfo(file) ==
    [file |-> file,
     dirty |-> (/\ editHotspot # Null /\ displayHotspot # Null /\ crop # Null
                /\ completedCrop # Null /\ error # Null /\ Len(history) > 1)]

\* ------------------------------------------------------------- Init
Init ==
    /\ viewMode = "generator"
    /\ history = <<>>
    /\ historyIndex = -1
    /\ prompt = ""
    /\ isLoading = FALSE
    /\ error = Null
    /\ editHotspot = Null
    /\ displayHotspot = Null
    /\ activeTab = "retouch"
    /\ crop = Null
    /\ completedCrop = Null
    /\ adBaseImage = Null
    /\ variations = <<>>
    /\ editRequests = {}
    /\ variationRequests = {}
    /\ nextId = 0
    /\ nextVariationId = 0
    /\ lastOp = Op("init", "ok", Null)
    /\ customAdPrompt = ""
    /\ nextBatch = 0
    /\ variationOutcomes = {}
    /\ serviceCall = Null
    /\ calmEditorSessionId = Null
    /\ chatBots = <<>>
    /\ chatPayloads = <<>>
    /\ nextSessionId = 0
    /\ chatMessages = <<>>
    /\ chatLoading = <<>>
    /\ chatRequests = {}
    /\ chatReply = Null
    /\ rendered = Null
    /\ chatAttachment = Null
    /\ objectUrls = {}
    /\ urlsMade = 0
    /\ urlEffects = [e \in {"current", "original", "adBase", "preview"} |->
                        [dep |-> Null, url |-> Null]]
    /\ resizeModalOpen = FALSE
    /\ imageToResize = Null
    /\ resizeModal = Null
    /\ resizeRequests = {}
    /\ resizeCalls = 0

\* ------------------------------------------------------------- history manager
\* addImageToHistory(newImageFile) as run by a closure that holds history h
\* and cursor i.
addImageToHistory(h, i, newImageFile) ==
    LET newHistory == newHistoryOf(h, i, newImageFile) IN
    /\ history' = newHistory
    /\ historyIndex' = newIndexOf(newHistory)
    /\ crop' = Null
    /\ completedCrop' = Null

\* (mutant: the completed crop region survives the load)
loadFileIntoEditor_keepsCrop(file) ==
    /\ error' = Null
    /\ history' = <<file>>
    /\ historyIndex' = 0
    /\ editHotspot' = Null
    /\ displayHotspot' = Null
    /\ activeTab' = "retouch"
    /\ crop' = Null
    /\ UNCHANGED completedCrop

loadFileIntoEditor(file) ==
    /\ error' = Null
    /\ history' = <<file>>
    /\ historyIndex' = 0
    /\ editHotspot' = Null
    /\ displayHotspot' = Null
    /\ activeTab' = "retouch"
    /\ crop' = Null
    /\ completedCrop' = Null

handleNewSession(file) ==
    /\ loadFileIntoEditor(file)
    /\ adBaseImage' = Some(file)
    /\ variations' = <<>>
    /\ lastOp' = Op("handleNewSession", "ok", LoadInfo(file))
    /\ UNCHANGED <<viewMode, prompt, isLoading, editRequests,
                   variationRequests, nextId, nextVariationId, otherCells>>

\* (mutant: the upload keeps the variations of the base image before it)
handleAdImageUpload_keepsList(file) ==
    /\ adBaseImage' = Some(file)
    /\ loadFileIntoEditor(file)
    /\ lastOp' = Op("handleAdImageUpload", "ok", LoadInfo(file))
    /\ UNCHANGED <<viewMode, prompt, isLoading, variations, editRequests,
                   variationRequests, nextId, nextVariationId, otherCells>>

handleAdImageUpload(file) ==
    /\ adBaseImage' = Some(file)
    /\ variations' = <<>>
    /\ loadFileIntoEditor(file)
    /\ lastOp' = Op("handleAdImageUpload", "ok", LoadInfo(file))
    /\ UNCHANGED <<viewMode, prompt, isLoading, editRequests,
                   variationRequests, nextId, nextVariationId, otherCells>>

\* (mutant: editing a variation empties the list)
handleEditVariation_clears(url) ==
    /\ ~dataURLtoFileThrows(url)
    /\ loadFileIntoEditor(dataURLtoFile(url, "variation"))
    /\ viewMode' = "editor"
    /\ variations' = <<>>
    /\ lastOp' = Op("handleEditVariation", "ok", LoadInfo(dataURLtoFile(url, "variation")))
    /\ UNCHANGED <<prompt, isLoading, adBaseImage, editRequests,
                   variationRequests, nextId, nextVariationId, otherCells>>

\* handleEditVariation(url), url being the result of a listed variation that
\* is shown as resolved.  dataURLtoFile throws before anything is set.
handleEditVariation(url) ==
    IF dataURLtoFileThrows(url)
    THEN /\ lastOp' = Op("handleEditVariation", "throws", Null)
         /\ UNCHANGED <<viewMode, editorCells, adBaseImage, variations,
                        editRequests, variationRequests, nextId, nextVariationId, otherCells>>
    ELSE LET file == dataURLtoFile(url, "variation") IN
         /\ loadFileIntoEditor(file)
         /\ viewMode' = "editor"
         /\ lastOp' = Op("handleEditVariation", "ok", LoadInfo(file))
         /\ UNCHANGED <<prompt, isLoading, adBaseImage, variations, editRequests,
                        variationRequests, nextId, nextVariationId, otherCells>>

\* (mutant: the cursor is decremented without the canUndo guard)
handleUndo_unguarded ==
    /\ historyIndex' = historyIndex - 1
    /\ editHotspot' = Null
    /\ displayHotspot' = Null
    /\ lastOp' = Op("handleUndo", "ok", Null)
    /\ UNCHANGED <<viewMode, history, prompt, isLoading, error, activeTab, crop,
                   completedCrop, adBaseImage, variations, editRequests,
                   variationRequests, nextId, nextVariationId, otherCells>>

handleUndo ==
    /\ IF canUndo
       THEN /\ historyIndex' = historyIndex - 1
            /\ editHotspot' = Null
            /\ displayHotspot' = Null
            /\ lastOp' = Op("handleUndo", "ok", Null)
       ELSE /\ UNCHANGED <<historyIndex, editHotspot, displayHotspot>>
            /\ lastOp' = Op("handleUndo", "noop", Null)
    /\ UNCHANGED <<viewMode, history, prompt, isLoading, error, activeTab, crop,
                   completedCrop, adBaseImage, variations, editRequests,
                   variationRequests, nextId, nextVariationId, otherCells>>

handleRedo ==
    /\ IF canRedo
       THEN /\ historyIndex' = historyIndex + 1
            /\ editHotspot' = Null
            /\ displayHotspot' = Null
            /\ lastOp' = Op("handleRedo", "ok", Null)
       ELSE /\ UNCHANGED <<historyIndex, editHotspot, displayHotspot>>
            /\ lastOp' = Op("handleRedo", "noop", Null)
    /\ UNCHANGED <<viewMode, history, prompt, isLoading, error, activeTab, crop,
                   completedCrop, adBaseImage, variations, editRequests,
                   variationRequests, nextId, nextVariationId, otherCells>>

\* (mutant: reset drops the edits instead of only moving the cursor)
handleReset_truncates ==
    /\ IF Len(history) > 0
       THEN /\ historyIndex' = 0
            /\ history' = <<history[1]>>
            /\ error' = Null
            /\ editHotspot' = Null
            /\ displayHotspot' = Null
            /\ lastOp' = Op("handleReset", "ok", historyIndex)
       ELSE /\ UNCHANGED <<history, historyIndex, error, editHotspot, displayHotspot>>
            /\ lastOp' = Op("handleReset", "noop", Null)
    /\ UNCHANGED <<viewMode, prompt, isLoading, activeTab, crop,
                   completedCrop, adBaseImage, variations, editRequests,
                   variationRequests, nextId, nextVariationId, otherCells>>

handleReset ==
    /\ IF Len(history) > 0
       THEN /\ historyIndex' = 0
            /\ error' = Null
            /\ editHotspot' = Null
            /\ displayHotspot' = Null
            /\ lastOp' = Op("handleReset", "ok", historyIndex)
       ELSE /\ UNCHANGED <<historyIndex, error, editHotspot, displayHotspot>>
            /\ lastOp' = Op("handleReset", "noop", Null)
    /\ UNCHANGED <<viewMode, history, prompt, isLoading, activeTab, crop,
                   completedCrop, adBaseImage, variations, editRequests,
                   variationRequests, nextId, nextVariationId, otherCells>>

handleUploadNew ==
    /\ history' = <<>>
    /\ historyIndex' = -1
    /\ error' = Null
    /\ prompt' = ""
    /\ editHotspot' = Null
    /\ displayHotspot' = Null
    /\ adBaseImage' = Null
    /\ lastOp' = Op("handleUploadNew", "ok", Null)
    /\ UNCHANGED <<viewMode, isLoading, activeTab, crop, completedCrop, variations,
                   editRequests, variationRequests, nextId, nextVariationId, otherCells>>


\* ------------------------------------------------------------- edit requests
\* A local validation failure: the message is set and the handler returns.
Reject(name, text) ==
    /\ error' = Msg(text)
    /\ lastOp' = Op(name, "rejected", Null)
    /\ UNCHANGED <<viewMode, history, historyIndex, prompt, isLoading, editHotspot,
                   displayHotspot, activeTab, crop, completedCrop, adBaseImage,
                   variations, editRequests, variationRequests, nextId,
                   nextVariationId, otherCells>>

\* An edit handler up to its await: the request leaves with what the handler's
\* closure holds (the current image and, through addImageToHistory, the
\* history and the cursor of the render the handler belongs to).  The controls
\* that start an edit request are disabled while isLoading, which none of the
\* three handlers checks itself: it is the guard ~isLoading here.
Dispatch(name, context, instruction, hotspot) ==
    /\ nextId < MaxEdits
    /\ ~isLoading
    /\ isLoading' = TRUE
    /\ error' = Null
    /\ nextId' = nextId + 1
    /\ editRequests' = editRequests \cup
          {[id |-> nextId + 1, context |-> context, image |-> Val(currentImage),
            instruction |-> instruction, hotspot |-> hotspot,
            history |-> history, historyIndex |-> historyIndex]}
    /\ lastOp' = Op(name, "dispatched", nextId + 1)
    /\ UNCHANGED <<viewMode, history, historyIndex, prompt, editHotspot,
                   displayHotspot, activeTab, crop, completedCrop, adBaseImage,
                   variations, variationRequests, nextVariationId, otherCells>>

\* (mutant: the failure branch without the finally block)
Complete_noFinally(name, r, o, failText, clearHotspot) ==
    /\ editRequests' = editRequests \ {r}
    /\ IF o.ok /\ ~dataURLtoFileThrows(o.url)
       THEN /\ addImageToHistory(r.history, r.historyIndex,
                                 dataURLtoFile(o.url, "generated"))
            /\ IF clearHotspot
               THEN editHotspot' = Null /\ displayHotspot' = Null
               ELSE UNCHANGED <<editHotspot, displayHotspot>>
            /\ lastOp' = Op(name, "committed", CommitInfo(r.id, r.history, r.historyIndex))
            /\ isLoading' = FALSE
            /\ UNCHANGED error
       ELSE /\ error' = Msg(failText)
            /\ lastOp' = Op(name, "failed", r.id)
            /\ UNCHANGED <<history, historyIndex, crop, completedCrop,
                           editHotspot, displayHotspot, isLoading>>
    /\ UNCHANGED <<viewMode, prompt, activeTab, adBaseImage, variations,
                   variationRequests, nextId, nextVariationId, otherCells>>

\* The continuation of an edit handler after its await, for request r answered
\* by o: try { dataURLtoFile; addImageToHistory } catch { setError } finally
\* { setIsLoading(false) }.  clearHotspot is handleGenerate's two extra calls.
Complete(name, r, o, failText, clearHotspot) ==
    /\ editRequests' = editRequests \ {r}
    /\ isLoading' = FALSE
    /\ IF o.ok /\ ~dataURLtoFileThrows(o.url)
       THEN /\ addImageToHistory(r.history, r.historyIndex,
                                 dataURLtoFile(o.url, "generated"))
            /\ IF clearHotspot
               THEN editHotspot' = Null /\ displayHotspot' = Null
               ELSE UNCHANGED <<editHotspot, displayHotspot>>
            /\ lastOp' = Op(name, "committed", CommitInfo(r.id, r.history, r.historyIndex))
            /\ UNCHANGED error
       ELSE /\ error' = Msg(failText)
            /\ lastOp' = Op(name, "failed", r.id)
            /\ UNCHANGED <<history, historyIndex, crop, completedCrop,
                           editHotspot, displayHotspot>>
    /\ UNCHANGED <<viewMode, prompt, activeTab, adBaseImage, variations,
                   variationRequests, nextId, nextVariationId, otherCells>>

handleGenerate ==
    IF currentImage = Null
    THEN Reject("handleGenerate", "No hay imagen cargada para editar.")
    ELSE IF trim(prompt) = ""
    THEN Reject("handleGenerate", "Por favor ingresa una descripcion para tu edicion.")
    ELSE IF editHotspot = Null
    THEN Reject("handleGenerate",
                "Por favor haz clic en la imagen para seleccionar un area a editar.")
    ELSE Dispatch("handleGenerate", "edicion", prompt, editHotspot)

handleGenerateDone(r, o) ==
    /\ r.context = "edicion"
    /\ Complete("handleGenerateDone", r, o,
                "Error al generar la imagen.", TRUE)

FilterPrompts == {"Synthwave"}
handleApplyFilter(filterPrompt) ==
    IF currentImage = Null
    THEN Reject("handleApplyFilter", "No hay imagen cargada para aplicar un filtro.")
    ELSE Dispatch("handleApplyFilter", "filtro", filterPrompt, Null)

handleApplyFilterDone(r, o) ==
    /\ r.context = "filtro"
    /\ Complete("handleApplyFilterDone", r, o,
                "Error al aplicar el filtro.", FALSE)

AdjustmentPrompts == {"Blur Background"}
handleApplyAdjustment(adjustmentPrompt) ==
    IF currentImage = Null
    THEN Reject("handleApplyAdjustment", "No hay imagen cargada para aplicar un ajuste.")
    ELSE Dispatch("handleApplyAdjustment", "ajuste", adjustmentPrompt, Null)

handleApplyAdjustmentDone(r, o) ==
    /\ r.context = "ajuste"
    /\ Complete("handleApplyAdjustmentDone", r, o,
                "Error al aplicar el ajuste.", FALSE)

\* handleApplyCrop is synchronous: it runs addImageToHistory of the current
\* render.  ctxOk is whether canvas.getContext('2d') returned a context.
handleApplyCrop(ctxOk) ==
    IF completedCrop = Null \/ ~imgRefCurrent
    THEN Reject("handleApplyCrop", "Por favor selecciona un area para recortar.")
    ELSE IF ~ctxOk
    THEN Reject("handleApplyCrop", "No se pudo procesar el recorte.")
    ELSE /\ nextId < MaxEdits
         /\ nextId' = nextId + 1
         /\ addImageToHistory(history, historyIndex,
               dataURLtoFile(DataUrl("image/png", nextId + 1), "generated"))
         /\ lastOp' = Op("handleApplyCrop", "committed",
                         CommitInfo(nextId + 1, history, historyIndex))
         /\ UNCHANGED <<viewMode, prompt, isLoading, error, editHotspot,
                        displayHotspot, activeTab, adBaseImage, variations,
                        editRequests, variationRequests, nextVariationId, otherCells>>


\* ------------------------------------------------------------- editor inputs
\* A click can reach the displayed image (the <img onClick> of imageDisplay)
\* when it is mounted, which is outside the crop tab, and not covered by the
\* loading overlay.
imageDisplayMounted == imgRefCurrent /\ activeTab # "crop" /\ ~isLoading

handleImageClick(offset) ==
    /\ imageDisplayMounted
    /\ IF activeTab # "retouch"
       THEN /\ UNCHANGED <<displayHotspot, editHotspot>>
            /\ lastOp' = Op("handleImageClick", "noop", Null)
       ELSE /\ displayHotspot' = Some(offset)
            /\ editHotspot' =
                 Some([x |-> RoundDiv(offset.x * naturalWidth, clientWidth),
                       y |-> RoundDiv(offset.y * naturalHeight, clientHeight)])
            /\ lastOp' = Op("handleImageClick", "ok", Null)
    /\ UNCHANGED <<viewMode, history, historyIndex, prompt, isLoading, error,
                   activeTab, crop, completedCrop, adBaseImage, variations,
                   editRequests, variationRequests, nextId, nextVariationId, otherCells>>

\* The tab buttons.
setActiveTab(tab) ==
    /\ activeTab' = tab
    /\ lastOp' = Op("setState", "ok", Null)
    /\ UNCHANGED <<viewMode, history, historyIndex, prompt, isLoading, error,
                   editHotspot, displayHotspot, crop, completedCrop, adBaseImage,
                   variations, editRequests, variationRequests, nextId,
                   nextVariationId, otherCells>>

\* The instruction input.
setPrompt(value) ==
    /\ prompt' = value
    /\ lastOp' = Op("setState", "ok", Null)
    /\ UNCHANGED <<viewMode, history, historyIndex, isLoading, error, editHotspot,
                   displayHotspot, activeTab, crop, completedCrop, adBaseImage,
                   variations, editRequests, variationRequests, nextId,
                   nextVariationId, otherCells>>

\* 'Intentar de nuevo' on the error panel.
setErrorNull ==
    /\ error' = Null
    /\ lastOp' = Op("setState", "ok", Null)
    /\ UNCHANGED <<viewMode, history, historyIndex, prompt, isLoading, editHotspot,
                   displayHotspot, activeTab, crop, completedCrop, adBaseImage,
                   variations, editRequests, variationRequests, nextId,
                   nextVariationId, otherCells>>

\* The header's two buttons.
setViewMode(mode) ==
    /\ viewMode' = mode
    /\ lastOp' = Op("setState", "ok", Null)
    /\ UNCHANGED <<editorCells, adBaseImage, variations, editRequests,
                   variationRequests, nextId, nextVariationId, otherCells>>

\* ReactCrop's onChange and onComplete: mounted in the crop tab, and covered
\* by the loading overlay while isLoading.
reactCropMounted == imgRefCurrent /\ activeTab = "crop" /\ ~isLoading

setCrop(c) ==
    /\ reactCropMounted
    /\ crop' = Some(c)
    /\ lastOp' = Op("setState", "ok", Null)
    /\ UNCHANGED <<viewMode, history, historyIndex, prompt, isLoading, error,
                   editHotspot, displayHotspot, activeTab, completedCrop,
                   adBaseImage, variations, editRequests, variationRequests,
                   nextId, nextVariationId, otherCells>>

setCompletedCrop(c) ==
    /\ reactCropMounted
    /\ completedCrop' = Some(c)
    /\ lastOp' = Op("setState", "ok", Null)
    /\ UNCHANGED <<viewMode, history, historyIndex, prompt, isLoading, error,
                   editHotspot, displayHotspot, activeTab, crop, adBaseImage,
                   variations, editRequests, variationRequests, nextId,
                   nextVariationId, otherCells>>

\* ------------------------------------------------------------- variations
\* AD_STRATEGIES: the number of instructions of each category.
AD_STRATEGIES ==
    [Texto |-> 4, Fondo |-> 5, CTA |-> 3, Producto |-> 3, Composicion |-> 3,
     PruebaSocial |-> 3, Urgencia |-> 3, Color |-> 3, Simple |-> 3]
\* prompts[index] of a category: the instruction is named by its place.
strategyPrompt(category, index) == [category |-> category, index |-> index]
\* The categories whose button the runs press.
StrategyInputs == {"CTA"}

\* handleGenerateMix keeps the first five of the shuffled categories.
MixSize == 5
\* Variations started one at a time so far.
singlesStarted == nextVariationId - MixSize * nextBatch

createVariation(id, label, instruction) ==
    [id |-> id, label |-> label, prompt |-> instruction,
     url |-> Null, loading |-> TRUE, error |-> Null]

\* (mutant: the request is never sent)
processVariationStart_neverSends(variation) == variationRequests

\* processVariation up to its await: nothing is sent without a base image.
processVariationStart(variation) ==
    IF adBaseImage = Null
    THEN variationRequests
    ELSE variationRequests \cup
            {[id |-> variation.id, image |-> Val(adBaseImage),
              instruction |-> variation.prompt]}

\* (mutant: the new variation is put at the end of the list)
handleGenerateStrategy_appends(category, index) ==
    LET newVariation ==
            createVariation(nextVariationId + 1, category,
                            strategyPrompt(category, index)) IN
    /\ singlesStarted < MaxVariations
    /\ nextVariationId' = nextVariationId + 1
    /\ variations' = Append(variations, newVariation)
    /\ variationRequests' = processVariationStart(newVariation)
    /\ lastOp' = Op("handleGenerateStrategy", "ok", [id |-> nextVariationId + 1])
    /\ UNCHANGED <<viewMode, editorCells, adBaseImage, editRequests, nextId,
                   otherCells>>

\* handleGenerateStrategy(category), index being
\* Math.floor(Math.random() * prompts.length).
handleGenerateStrategy(category, index) ==
    LET newVariation ==
            createVariation(nextVariationId + 1, category,
                            strategyPrompt(category, index)) IN
    /\ singlesStarted < MaxVariations
    /\ nextVariationId' = nextVariationId + 1
    /\ variations' = <<newVariation>> \o variations
    /\ variationRequests' = processVariationStart(newVariation)
    /\ lastOp' = Op("handleGenerateStrategy", "ok", [id |-> nextVariationId + 1])
    /\ UNCHANGED <<viewMode, editorCells, adBaseImage, editRequests, nextId,
                   otherCells>>

\* The custom instruction field.
CustomPrompts == {"", " ", "fondo de playa"}
setCustomAdPrompt(value) ==
    /\ customAdPrompt' = value
    /\ lastOp' = Op("setState", "ok", Null)
    /\ UNCHANGED <<viewMode, editorCells, adBaseImage, variations, editRequests,
                   variationRequests, nextId, nextVariationId, nextBatch,
                   variationOutcomes, serviceCall, chatCells, conversationCells>>

handleGenerateCustom ==
    IF trim(customAdPrompt) = ""
    THEN /\ lastOp' = Op("handleGenerateCustom", "rejected", Null)
         /\ UNCHANGED <<viewMode, editorCells, adBaseImage, variations,
                        editRequests, variationRequests, nextId, nextVariationId,
                        otherCells>>
    ELSE LET newVariation ==
                 createVariation(nextVariationId + 1, "Personalizado",
                                 [text |-> customAdPrompt]) IN
         /\ singlesStarted < MaxVariations
         /\ nextVariationId' = nextVariationId + 1
         /\ variations' = <<newVariation>> \o variations
         /\ variationRequests' = processVariationStart(newVariation)
         /\ customAdPrompt' = ""
         /\ lastOp' = Op("handleGenerateCustom", "ok", [id |-> nextVariationId + 1])
         /\ UNCHANGED <<viewMode, editorCells, adBaseImage, editRequests, nextId,
                        nextBatch, variationOutcomes, serviceCall, chatCells, conversationCells>>

\* handleGenerateMix: shuffledCats is categories.sort(random).slice(0, 5), a
\* sequence of MixSize distinct categories; index[k] is the instruction picked
\* for the k-th of them.  Nothing happens without a base image.
handleGenerateMix(shuffledCats, index) ==
    IF adBaseImage = Null
    THEN /\ lastOp' = Op("handleGenerateMix", "rejected", Null)
         /\ UNCHANGED <<viewMode, editorCells, adBaseImage, variations,
                        editRequests, variationRequests, nextId, nextVariationId,
                        otherCells>>
    ELSE LET newVariations ==
                 [k \in 1..MixSize |->
                     createVariation(nextVariationId + k, shuffledCats[k],
                                     strategyPrompt(shuffledCats[k], index[k]))] IN
         /\ nextBatch < MaxBatches
         /\ nextBatch' = nextBatch + 1
         /\ nextVariationId' = nextVariationId + MixSize
         /\ variations' = newVariations \o variations
         /\ variationRequests' = variationRequests \cup
               {[id |-> newVariations[k].id, image |-> Val(adBaseImage),
                 instruction |-> newVariations[k].prompt] : k \in 1..MixSize}
         /\ lastOp' = Op("handleGenerateMix", "ok", [batch |-> nextBatch + 1])
         /\ UNCHANGED <<viewMode, editorCells, adBaseImage, editRequests, nextId,
                        customAdPrompt, variationOutcomes, serviceCall,
                        chatCells, conversationCells>>

\* Variants of the update below: one patches every record of the list, the
\* other leaves the matching record in flight.
mapVariation_everyRecord(prev, id, url, err, loading) ==
    [k \in 1..Len(prev) |->
        [prev[k] EXCEPT !.url = IF url = Null THEN @ ELSE url,
                        !.error = IF err = Null THEN @ ELSE err,
                        !.loading = loading]]
mapVariation_staysLoading(prev, id, url, err, loading) ==
    [k \in 1..Len(prev) |->
        IF prev[k].id = id
        THEN [prev[k] EXCEPT !.url = IF url = Null THEN @ ELSE url,
                             !.error = IF err = Null THEN @ ELSE err]
        ELSE prev[k]]

\* A variant that lists the answered variation when the list lacks it.
mapVariation_addsMissing(prev, id, url, err, loading) ==
    IF \E k \in 1..Len(prev) : prev[k].id = id
    THEN [k \in 1..Len(prev) |->
            IF prev[k].id = id
            THEN [prev[k] EXCEPT !.url = IF url = Null THEN @ ELSE url,
                                 !.error = IF err = Null THEN @ ELSE err,
                                 !.loading = loading]
            ELSE prev[k]]
    ELSE Append(prev, [id |-> id, label |-> "", prompt |-> [text |-> ""],
                       url |-> url, error |-> err, loading |-> loading])

\* prev.map(v => v.id === id ? {...v, ...patch} : v)
mapVariation(prev, id, url, err, loading) ==
    [k \in 1..Len(prev) |->
        IF prev[k].id = id
        THEN [prev[k] EXCEPT !.url = IF url = Null THEN @ ELSE url,
                             !.error = IF err = Null THEN @ ELSE err,
                             !.loading = loading]
        ELSE prev[k]]

\* (mutant: the message of the error is stored as it is)
processVariationDone_rawMessage(r, o) ==
    /\ variationRequests' = variationRequests \ {r}
    /\ variations' =
         IF o.ok
         THEN mapVariation(variations, r.id, Some(o.url), Null, FALSE)
         ELSE mapVariation(variations, r.id, Null, Some(o.message), FALSE)
    /\ variationOutcomes' = variationOutcomes \cup {[id |-> r.id, ok |-> o.ok]}
    /\ lastOp' = Op("processVariation", IF o.ok THEN "resolved" ELSE "failed", Null)
    /\ UNCHANGED <<viewMode, editorCells, adBaseImage, editRequests, nextId,
                   nextVariationId, customAdPrompt, nextBatch, serviceCall,
                   chatCells, conversationCells>>

\* processVariation after its await, for request r answered by o.
processVariationDone(r, o) ==
    /\ variationRequests' = variationRequests \ {r}
    /\ variations' =
         IF o.ok
         THEN mapVariation(variations, r.id, Some(o.url), Null, FALSE)
         ELSE mapVariation(variations, r.id, Null,
                           Some(IF o.message = "" THEN "Error" ELSE o.message), FALSE)
    /\ variationOutcomes' = variationOutcomes \cup {[id |-> r.id, ok |-> o.ok]}
    /\ lastOp' = Op("processVariation", IF o.ok THEN "resolved" ELSE "failed", Null)
    /\ UNCHANGED <<viewMode, editorCells, adBaseImage, editRequests, nextId,
                   nextVariationId, customAdPrompt, nextBatch, serviceCall,
                   chatCells, conversationCells>>

\* The results of the variations the list shows as resolved.
shownVariationUrls ==
    {Val(variations[k].url) :
        k \in {j \in 1..Len(variations) :
                  ~variations[j].loading /\ variations[j].url # Null}}

\* ------------------------------------------------------------- specification
\* The photo editor: every handler of the editor view, the two uploads and
\* the inputs.
LoadNext ==
    \/ \E file \in UploadFiles : handleNewSession(file)
    \/ \E file \in UploadFiles : handleAdImageUpload(file)
    \/ handleUploadNew

CursorNext ==
    \/ handleUndo
    \/ handleRedo
    \/ handleReset

EditNext ==
    \/ handleGenerate
    \/ \E r \in editRequests : \E o \in ServiceOutcomes(r.context, r.id) :
          handleGenerateDone(r, o)
    \/ \E p \in FilterPrompts : handleApplyFilter(p)
    \/ \E r \in editRequests : \E o \in ServiceOutcomes(r.context, r.id) :
          handleApplyFilterDone(r, o)
    \/ \E p \in AdjustmentPrompts : handleApplyAdjustment(p)
    \/ \E r \in editRequests : \E o \in ServiceOutcomes(r.context, r.id) :
          handleApplyAdjustmentDone(r, o)
    \/ \E ctxOk \in BOOLEAN : handleApplyCrop(ctxOk)

\* The values the runs of Spec give to the inputs.
TabInputs == {"retouch", "crop", "filters"}
PromptInputs == {"cambia el color"}
ViewModeInputs == {"editor"}

InputNext ==
    \/ \E offset \in Clicks : handleImageClick(offset)
    \/ \E tab \in TabInputs : setActiveTab(tab)
    \/ \E value \in PromptInputs : setPrompt(value)
    \/ \E mode \in ViewModeInputs : setViewMode(mode)
    \/ \E c \in CropRegions : setCrop(c)
    \/ \E c \in CropRegions : setCompletedCrop(c)

Next == LoadNext \/ CursorNext \/ EditNext \/ InputNext

Spec == Init /\ [][Next]_vars


\* ------------------------------------------------------------- the rendered controls
\* SpecUI runs every handler only from a control that renderEditor,
\* renderAdGenerator or the header shows and that is not disabled.
errorPanelShown == viewMode = "editor" /\ error # Null
startScreenShown == viewMode = "editor" /\ error = Null /\ currentImage = Null
editorShown == viewMode = "editor" /\ error = Null /\ currentImage # Null
adUploadShown == viewMode = "generator" /\ adBaseImage = Null
adGeneratorShown == viewMode = "generator" /\ adBaseImage # Null

StartScreenFileSelect(file) == startScreenShown /\ handleNewSession(file)
AdUploadInput(file) == adUploadShown /\ handleAdImageUpload(file)
UploadNewButton == (editorShown \/ adGeneratorShown) /\ handleUploadNew
UndoButton == editorShown /\ canUndo /\ handleUndo
RedoButton == editorShown /\ canRedo /\ handleRedo
ResetButton == editorShown /\ canUndo /\ handleReset
GenerateForm ==
    /\ editorShown /\ activeTab = "retouch"
    /\ ~isLoading /\ trim(prompt) # "" /\ editHotspot # Null
    /\ handleGenerate
FilterPanelButton(p) ==
    editorShown /\ activeTab = "filters" /\ ~isLoading /\ handleApplyFilter(p)
AdjustmentPanelButton(p) ==
    editorShown /\ activeTab = "adjust" /\ ~isLoading /\ handleApplyAdjustment(p)
CropPanelButton(ctxOk) ==
    /\ editorShown /\ activeTab = "crop"
    /\ ~isLoading /\ completedCrop # Null
    /\ handleApplyCrop(ctxOk)
TabButton(tab) == editorShown /\ setActiveTab(tab)
PromptInput(value) ==
    /\ editorShown /\ activeTab = "retouch"
    /\ ~isLoading /\ editHotspot # Null
    /\ setPrompt(value)
ErrorPanelButton == errorPanelShown /\ setErrorNull

UINext ==
    \/ \E file \in UploadFiles : StartScreenFileSelect(file)
    \/ \E file \in UploadFiles : AdUploadInput(file)
    \/ UploadNewButton
    \/ UndoButton
    \/ RedoButton
    \/ ResetButton
    \/ GenerateForm
    \/ \E r \in editRequests : \E o \in ServiceOutcomes(r.context, r.id) :
          handleGenerateDone(r, o)
    \/ \E p \in FilterPrompts : FilterPanelButton(p)
    \/ \E r \in editRequests : \E o \in ServiceOutcomes(r.context, r.id) :
          handleApplyFilterDone(r, o)
    \/ \E p \in AdjustmentPrompts : AdjustmentPanelButton(p)
    \/ \E r \in editRequests : \E o \in ServiceOutcomes(r.context, r.id) :
          handleApplyAdjustmentDone(r, o)
    \/ \E ctxOk \in BOOLEAN : CropPanelButton(ctxOk)
    \/ \E offset \in Clicks : handleImageClick(offset)
    \/ \E tab \in Tabs : TabButton(tab)
    \/ \E value \in Prompts : PromptInput(value)
    \/ ErrorPanelButton
    \/ \E mode \in ViewModes : setViewMode(mode)
    \/ \E c \in CropRegions : setCrop(c)
    \/ \E c \in CropRegions : setCompletedCrop(c)

SpecUI == Init /\ [][UINext]_vars

\* ------------------------------------------------------------- the ad generator
\* SpecAds runs the generator view: the base-image upload, the variations
\* started one at a time, their requests and the "edit this variation" load.
\* How a variation request ends: as any service call, or with an error
\* whose message is empty.
VariationOutcomes(id) ==
    ServiceOutcomes("variacion-ad", id) \cup {[ok |-> FALSE, message |-> ""]}

AdsNext ==
    \/ \E file \in UploadFiles : handleNewSession(file)
    \/ \E file \in UploadFiles : handleAdImageUpload(file)
    \/ \E value \in CustomPrompts : setCustomAdPrompt(value)
    \/ handleGenerateCustom
    \/ \E category \in StrategyInputs :
          \E index \in 0..(AD_STRATEGIES[category] - 1) :
             handleGenerateStrategy(category, index)
    \/ \E r \in variationRequests : \E o \in VariationOutcomes(r.id) :
          processVariationDone(r, o)
    \/ \E url \in shownVariationUrls : handleEditVariation(url)
    \/ handleUploadNew
    \/ \E mode \in ViewModes : setViewMode(mode)

SpecAds == Init /\ [][AdsNext]_vars

\* ------------------------------------------------------------- starting variations
\* The mixes the runs start: five distinct categories in the order the
\* shuffle left them, and the place of the instruction picked for each.
MixInputs ==
    {<<"Texto", "Fondo", "CTA", "Producto", "Color">>,
     <<"Simple", "Urgencia", "PruebaSocial", "Composicion", "CTA">>}
MixIndexInputs(shuffledCats) ==
    {[k \in 1..MixSize |-> AD_STRATEGIES[shuffledCats[k]] - 1]}

\* SpecGen runs the three ways of starting variations, one at a time and in
\* a mix, over lists that hold resolved, failed and in-flight variations.
\* In these runs the service answers the requests in the order they were
\* sent, resolving those of odd identifiers and failing those of even ones.
GenOutcomes(id) ==
    IF id % 2 = 1
    THEN {[ok |-> TRUE, url |-> DataUrl("image/png", id)]}
    ELSE {[ok |-> FALSE, message |-> m] : m \in ServiceErrors}

GenNext ==
    \/ \E file \in SessionFiles : handleAdImageUpload(file)
    \/ \E value \in {"fondo de playa"} : setCustomAdPrompt(value)
    \/ handleGenerateCustom
    \/ \E category \in StrategyInputs :
          \E index \in 0..(AD_STRATEGIES[category] - 1) :
             handleGenerateStrategy(category, index)
    \/ \E shuffledCats \in MixInputs : \E index \in MixIndexInputs(shuffledCats) :
          handleGenerateMix(shuffledCats, index)
    \/ \E r \in variationRequests : \E o \in GenOutcomes(r.id) :
          /\ \A q \in variationRequests : r.id <= q.id
          /\ processVariationDone(r, o)

SpecGen == Init /\ [][GenNext]_vars

\* The controls of the generator view, shown once a base image is loaded.
CustomPromptInput(value) == adGeneratorShown /\ setCustomAdPrompt(value)
CustomButton ==
    adGeneratorShown /\ trim(customAdPrompt) # "" /\ handleGenerateCustom
StrategyButton(category, index) ==
    adGeneratorShown /\ handleGenerateStrategy(category, index)
MixButton(shuffledCats, index) ==
    adGeneratorShown /\ handleGenerateMix(shuffledCats, index)

\* The service answers the oldest variation request.
AnswerVariation ==
    \E r \in variationRequests : \E o \in GenOutcomes(r.id) :
       /\ \A q \in variationRequests : r.id <= q.id
       /\ processVariationDone(r, o)

\* SpecGenUI starts variations only from the rendered controls, and every
\* request sent is answered in the end.  What the user types and picks in
\* these runs:
GenUIPrompts == {"fondo de playa"}
GenUIMixes == {<<"Texto", "Fondo", "CTA", "Producto", "Color">>}
GenUIModes == {"generator"}

GenUINext ==
    \/ \E file \in SessionFiles : AdUploadInput(file)
    \/ UploadNewButton
    \/ \E mode \in GenUIModes : setViewMode(mode)
    \/ \E value \in GenUIPrompts : CustomPromptInput(value)
    \/ CustomButton
    \/ \E category \in StrategyInputs :
          \E index \in {AD_STRATEGIES[category] - 1} :
             StrategyButton(category, index)
    \/ \E shuffledCats \in GenUIMixes : \E index \in MixIndexInputs(shuffledCats) :
          MixButton(shuffledCats, index)
    \/ AnswerVariation

SpecGenUI ==
    Init /\ [][GenUINext]_vars /\ WF_variationRequests(AnswerVariation)

\* ------------------------------------------------------------- mixes
\* SpecMix starts mixes from the generator view and lets the service answer
\* the five requests of a mix in any order, each with an image or an error.
MixOutcomes(id) ==
    {o \in ServiceOutcomes("variacion-ad", id) : o.ok => o.url.mime # ""}

MixNext ==
    \/ \E mode \in GenUIModes : setViewMode(mode)
    \/ \E file \in SessionFiles : AdUploadInput(file)
    \/ \E shuffledCats \in GenUIMixes : \E index \in MixIndexInputs(shuffledCats) :
          MixButton(shuffledCats, index)
    \/ \E r \in variationRequests : \E o \in MixOutcomes(r.id) :
          processVariationDone(r, o)

SpecMix == Init /\ [][MixNext]_vars

\* ------------------------------------------------------------- the service adapter
\* A GenerateContentResponse, as far as handleApiResponse reads it.  An
\* absent string field is "", an absent object is Null, absent content or
\* parts is the empty list.
BlockReasons == {"", "SAFETY"}
BlockReasonMessages == {"", "Contenido no permitido"}
FinishReasons == {"", "STOP", "SAFETY"}
ResponseTexts == {"", " ", "No puedo editar esta imagen"}
textOnlyPart == [inlineData |-> Null]
pngPart == [inlineData |-> Some([mimeType |-> "image/png", data |-> "iVBOR"])]
jpegPart == [inlineData |-> Some([mimeType |-> "image/jpeg", data |-> "9j4AA"])]
PartLists == {<<>>, <<textOnlyPart>>, <<textOnlyPart, pngPart>>, <<jpegPart, pngPart>>}
Candidates == [parts : PartLists, finishReason : FinishReasons]
CandidateLists ==
    {<<>>} \cup {<<c>> : c \in Candidates}
           \cup {<<c, [parts |-> <<pngPart>>, finishReason |-> "STOP"]>> : c \in Candidates}
Responses ==
    [blockReason : BlockReasons, blockReasonMessage : BlockReasonMessages,
     candidates : CandidateLists, text : ResponseTexts]
Contexts == {"variacion-ad", "redimensión"}
TargetRatios == {"1:1", "4:5", "9:16"}

\* A string built by a template literal is the list of its pieces.
Throw(message) == [ok |-> FALSE, message |-> message]
Return(url) == [ok |-> TRUE, url |-> url]

\* response.candidates?.[0]
firstCandidate(response) ==
    IF Len(response.candidates) > 0 THEN Some(response.candidates[1]) ELSE Null
\* response.candidates?.[0]?.content?.parts?.find(part => part.inlineData)
imagePartFromResponse(response) ==
    LET parts == IF firstCandidate(response) = Null
                 THEN <<>> ELSE Val(firstCandidate(response)).parts
        found == {k \in 1..Len(parts) : parts[k].inlineData # Null}
    IN IF found = {} THEN Null
       ELSE Some(parts[CHOOSE k \in found : \A j \in found : k <= j])
blockedMessage(response) ==
    <<"La solicitud fue bloqueada. Razón: ", response.blockReason, ". ",
      response.blockReasonMessage>>
dataReference(inlineData) ==
    <<"data:", inlineData.mimeType, ";base64,", inlineData.data>>
stoppedMessage(finishReason, context) ==
    <<"La generación de imagen para ", context,
      " se detuvo inesperadamente. Razón: ", finishReason,
      ". Esto suele relacionarse con configuraciones de seguridad.">>
noImageMessage(textFeedback, context) ==
    <<"El modelo de IA no devolvió una imagen para ", context, ". ">>
    \o (IF textFeedback # ""
        THEN <<"El modelo respondió con texto: \"", textFeedback, "\"">>
        ELSE <<"Esto puede suceder debido a filtros de seguridad o si la solicitud es demasiado compleja. Intenta reformular tu instrucción.">>)
afterBlockCheck(response, context) ==
    IF imagePartFromResponse(response) # Null
    THEN Return(dataReference(Val(Val(imagePartFromResponse(response)).inlineData)))
    ELSE LET finishReason == IF firstCandidate(response) = Null
                             THEN "" ELSE Val(firstCandidate(response)).finishReason
         IN IF finishReason # "" /\ finishReason # "STOP"
            THEN Throw(stoppedMessage(finishReason, context))
            ELSE Throw(noImageMessage(trim(response.text), context))

\* A variant that looks for the image before the block reason.
handleApiResponse_imageFirst(response, context) ==
    IF imagePartFromResponse(response) # Null
    THEN Return(dataReference(Val(Val(imagePartFromResponse(response)).inlineData)))
    ELSE IF response.blockReason # ""
         THEN Throw(blockedMessage(response))
         ELSE afterBlockCheck(response, context)

handleApiResponse(response, context) ==
    IF response.blockReason # ""
    THEN Throw(blockedMessage(response))
    ELSE afterBlockCheck(response, context)

\* A variant that sends the target ratio as it is.
apiAspectRatio_asRequested(targetRatio) == targetRatio
\* targetRatio === '4:5' ? '3:4' : targetRatio
apiAspectRatio(targetRatio) == IF targetRatio = "4:5" THEN "3:4" ELSE targetRatio

\* generateAdVariation(originalImage, instruction), the service answering
\* with response.
generateAdVariation(response) ==
    /\ serviceCall' = [fn |-> "generateAdVariation", targetRatio |-> "",
                       config |-> Null, context |-> "variacion-ad",
                       response |-> response,
                       outcome |-> handleApiResponse(response, "variacion-ad")]
    /\ UNCHANGED <<viewMode, editorCells, adBaseImage, variations, editRequests,
                   variationRequests, nextId, nextVariationId, lastOp,
                   customAdPrompt, nextBatch, variationOutcomes, chatCells, conversationCells>>

\* generateResizedImage(originalImage, targetRatio), called by handleResize
\* of the resize modal with the selected ratio.
generateResizedImage(targetRatio, response) ==
    /\ serviceCall' = [fn |-> "generateResizedImage", targetRatio |-> targetRatio,
                       config |-> Some([aspectRatio |-> apiAspectRatio(targetRatio)]),
                       context |-> "redimensión",
                       response |-> response,
                       outcome |-> handleApiResponse(response, "redimensión")]
    /\ UNCHANGED <<viewMode, editorCells, adBaseImage, variations, editRequests,
                   variationRequests, nextId, nextVariationId, lastOp,
                   customAdPrompt, nextBatch, variationOutcomes, chatCells, conversationCells>>

ServiceNext ==
    \/ \E response \in Responses : generateAdVariation(response)
    \/ \E targetRatio \in TargetRatios : \E response \in Responses :
          generateResizedImage(targetRatio, response)

SpecService == Init /\ [][ServiceNext]_vars

\* ------------------------------------------------------------- the chat widget
\* The identifiers crypto.randomUUID, or the 'sess_...' fallback where it is
\* missing, gives: a fresh one every time.
SessionIdKinds == {"uuid", "sess"}
newSessionIdOf(kind, n) == [kind |-> kind, n |-> n]

\* A variant that takes the new identifier whatever is stored.
sessionIdOf_alwaysNew(storedSessionId, newSessionId) == newSessionId
\* if (storedSessionId) return storedSessionId; ... return newSessionId;
\* what is stored is what this initializer wrote, never an empty string.
sessionIdOf(storedSessionId, newSessionId) ==
    IF storedSessionId # Null THEN Val(storedSessionId) ELSE newSessionId

\* The message every conversation starts with.
Greeting ==
    [sender |-> "bot",
     text |-> "¡Hola! Soy tu asistente de CalmEditor. ¿En qué puedo ayudarte hoy?",
     image |-> Null]

\* ChatBot mounts: the useState initializers of sessionId, messages and
\* isLoading run, in one go.
mountChatBot(kind) ==
    /\ Len(chatBots) < MaxMounts
    /\ LET storedSessionId == calmEditorSessionId
           newSessionId == newSessionIdOf(kind, nextSessionId + 1)
       IN /\ chatBots' = Append(chatBots, sessionIdOf(storedSessionId, newSessionId))
          /\ chatMessages' = Append(chatMessages, <<Greeting>>)
          /\ chatLoading' = Append(chatLoading, FALSE)
          /\ IF storedSessionId # Null
             THEN /\ UNCHANGED <<calmEditorSessionId, nextSessionId>>
                  /\ lastOp' = Op("mountChatBot", "read", Null)
             ELSE /\ calmEditorSessionId' = Some(newSessionId)
                  /\ nextSessionId' = nextSessionId + 1
                  /\ lastOp' = Op("mountChatBot", "created", Null)
    /\ UNCHANGED <<viewMode, editorCells, adBaseImage, variations, editRequests,
                   variationRequests, nextId, nextVariationId, customAdPrompt,
                   nextBatch, variationOutcomes, serviceCall, chatPayloads,
                   chatRequests, chatReply, rendered,
                   browserCells, modalCells>>

\* ------------------------------------------------------------- webhook responses
\* JSON values: what response.json() and JSON.parse give.
JUndefined == [t |-> "undefined"]
JNull == [t |-> "null"]
JStr(s) == [t |-> "str", s |-> s]
JNum(n) == [t |-> "num", n |-> n]
JArr(items) == [t |-> "arr", items |-> items]
JObj(fields) == [t |-> "obj", fields |-> fields]
SyntaxError == [t |-> "SyntaxError"]

\* The bodies the webhook answers with in these runs.
BodyHello == "[{\"output\":\"hello\"}]"
BodyPlain == "Listo, ya quedó."
BodyNested == "{\"output\":\"nested\"}"
BodyNestedQuoted == "\"{\\\"output\\\":\\\"nested\\\"}\""
BodyNullItem == "[null]"
BodyFooItem == "[{\"foo\":1}]"
BodyFooItemSpaced == "[ {\"foo\": 1} ]"
BodyFooObject == "{\"foo\":1}"
BodyTextAndMessage == "{\"text\":\"hi\",\"message\":\"yo\"}"
BodyMessageAndResponse == "[{\"message\":\"m\",\"response\":\"r\"}]"
BodyStringItem == "[\"hola\"]"
BodyEmptyArray == "[]"
BodyBroken == "{oops"
BodyOutputHoldsNested == "[{\"output\":\"{\\\"output\\\":\\\"nested\\\"}\"}]"
BodyEmptyOutput == "{\"output\":\"\",\"text\":\"t\"}"
BodyQuotedString == "\"hola\""
BodyResponseHoldsHello == "{\"response\":\"[{\\\"output\\\":\\\"hello\\\"}]\"}"
Bodies ==
    {BodyHello, BodyPlain, BodyNested, BodyNestedQuoted, BodyNullItem,
     BodyFooItem, BodyFooItemSpaced, BodyFooObject, BodyTextAndMessage,
     BodyMessageAndResponse, BodyStringItem, BodyEmptyArray, BodyBroken,
     BodyOutputHoldsNested, BodyEmptyOutput, BodyQuotedString,
     BodyResponseHoldsHello}

\* JSON.parse on the texts above; any other text of these runs is no JSON.
JSONparse(text) ==
    CASE text = BodyHello -> JArr(<<JObj("output" :> JStr("hello"))>>)
      [] text = BodyNested -> JObj("output" :> JStr("nested"))
      [] text = BodyNestedQuoted -> JStr(BodyNested)
      [] text = BodyNullItem -> JArr(<<JNull>>)
      [] text = BodyFooItem -> JArr(<<JObj("foo" :> JNum(1))>>)
      [] text = BodyFooItemSpaced -> JArr(<<JObj("foo" :> JNum(1))>>)
      [] text = BodyFooObject -> JObj("foo" :> JNum(1))
      [] text = BodyTextAndMessage ->
            JObj("text" :> JStr("hi") @@ "message" :> JStr("yo"))
      [] text = BodyMessageAndResponse ->
            JArr(<<JObj("message" :> JStr("m") @@ "response" :> JStr("r"))>>)
      [] text = BodyStringItem -> JArr(<<JStr("hola")>>)
      [] text = BodyEmptyArray -> JArr(<<>>)
      [] text = BodyOutputHoldsNested ->
            JArr(<<JObj("output" :> JStr(BodyNested))>>)
      [] text = BodyEmptyOutput ->
            JObj("output" :> JStr("") @@ "text" :> JStr("t"))
      [] text = BodyQuotedString -> JStr("hola")
      [] text = BodyResponseHoldsHello -> JObj("response" :> JStr(BodyHello))
      [] OTHER -> SyntaxError
\* JSON.stringify: the text without spaces.
JSONstringify(value) ==
    CHOOSE text \in Bodies \ {BodyFooItemSpaced} : JSONparse(text) = value
\* text.startsWith('[') || text.startsWith('{')
startsWithBracket(text) ==
    text \in {BodyHello, BodyNested, BodyNullItem, BodyFooItem, BodyFooItemSpaced,
              BodyFooObject, BodyTextAndMessage, BodyMessageAndResponse,
              BodyStringItem, BodyEmptyArray, BodyBroken, BodyOutputHoldsNested,
              BodyEmptyOutput, BodyResponseHoldsHello}

\* value.key, for a value that is neither null nor undefined
get(value, key) ==
    IF value.t = "obj" /\ key \in DOMAIN value.fields
    THEN value.fields[key] ELSE JUndefined
\* JavaScript truthiness
truthy(value) ==
    CASE value.t \in {"undefined", "null"} -> FALSE
      [] value.t = "str" -> value.s # ""
      [] value.t = "num" -> value.n # 0
      [] OTHER -> TRUE
\* a || b
or(a, b) == IF truthy(a) THEN a ELSE b
\* A variant that looks at the fields in the opposite order.
messageField_responseFirst(item) ==
    or(or(or(get(item, "response"), get(item, "message")), get(item, "text")),
       get(item, "output"))
\* item.output || item.text || item.message || item.response
messageField(item) ==
    or(or(or(get(item, "output"), get(item, "text")), get(item, "message")),
       get(item, "response"))

\* What the handling of a response ends in: a text for the assistant
\* message, or an exception thrown inside the try block.
Shown(text) == [threw |-> FALSE, text |-> text]
Thrown == [threw |-> TRUE]

\* The "Cleanup JSON-like strings" pass.
secondPass(botResponseText) ==
    IF ~startsWithBracket(botResponseText) THEN botResponseText
    ELSE LET parsed == JSONparse(botResponseText) IN
         IF parsed = SyntaxError THEN botResponseText
         ELSE IF parsed.t = "arr" /\ Len(parsed.items) > 0
                 /\ parsed.items[1].t \notin {"null", "undefined"}
                 /\ truthy(get(parsed.items[1], "output"))
              THEN get(parsed.items[1], "output").s
              ELSE IF truthy(get(parsed, "output"))
                   THEN get(parsed, "output").s
                   ELSE botResponseText

\* The JSON branch: data = await response.json() and the extraction.
jsonBranch(body) ==
    LET data == JSONparse(body) IN
    IF data = SyntaxError THEN Thrown
    ELSE IF data.t = "arr" /\ Len(data.items) > 0
    THEN LET firstItem == data.items[1] IN
         IF firstItem.t = "null" THEN Thrown
         ELSE LET extractedText ==
                     IF ~truthy(messageField(firstItem)) /\ firstItem.t = "str"
                     THEN firstItem ELSE messageField(firstItem)
              IN Shown(IF truthy(extractedText) THEN extractedText.s
                       ELSE JSONstringify(data))
    ELSE IF data.t \in {"obj", "arr"}
    THEN Shown(IF truthy(messageField(data)) THEN messageField(data).s
               ELSE JSONstringify(data))
    ELSE Shown(IF data.t = "str" THEN data.s ELSE JSONstringify(data))

\* The responses fetch resolves with, and its rejection.
ContentTypes == {"", "application/json", "text/plain"}
Statuses == {200, 500}
HttpResponses == [status : Statuses, contentType : ContentTypes, body : Bodies]
NetworkError == [status |-> 0, contentType |-> "", body |-> ""]

\* The try block of handleSendMessage after fetch: from the response to the
\* text of the assistant message.
replyTo(response) ==
    IF response = NetworkError THEN Thrown
    ELSE IF response.status = 200
    THEN IF response.contentType = "application/json"
         THEN LET extracted == jsonBranch(response.body) IN
              IF extracted.threw THEN Thrown ELSE Shown(secondPass(extracted.text))
         ELSE Shown(secondPass(response.body))
    ELSE Shown(<<"Error de conexión: ", response.status>>)

\* The assistant message the handling of a response appends.
botMessageFor(response) ==
    [sender |-> "bot",
     text |-> IF replyTo(response).threw
              THEN "Lo siento, hubo un problema al conectar con el servidor."
              ELSE replyTo(response).text,
     image |-> Null]

\* What the user sends: the text typed, an attachment or none, and whether
\* the FileReader could read the attachment.
ChatTexts == {"", " ", "hola"}
ChatAttachments == {Null, Some([src |-> "upload", n |-> 1])}

\* A variant that keeps only the new message.
appendMessage_replacesAll(messages, bot, message) ==
    [messages EXCEPT ![bot] = <<message>>]
\* setMessages(prev => [...prev, message]) of the ChatBot bot
appendMessage(messages, bot, message) ==
    [messages EXCEPT ![bot] = Append(@, message)]

\* The payload of a send: the text, or the stand-in text of an image sent
\* alone; the image only when it was read.
payloadOf(inputText, base64Image, sessionId) ==
    [message |-> IF inputText # "" THEN inputText
                 ELSE IF base64Image # Null THEN "Image uploaded"
                 ELSE "",
     sessionId |-> sessionId,
     image |-> base64Image]

\* handleSendMessage of the ChatBot bot, up to the await of fetch: the
\* validation, the reading of the attachment, the user message and the POST.
handleSendMessage(bot, inputText, attachment, readOk) ==
    IF trim(inputText) = "" /\ attachment = Null
    THEN /\ lastOp' = Op("handleSendMessage", "rejected", Null)
         /\ UNCHANGED <<viewMode, editorCells, adBaseImage, variations,
                        editRequests, variationRequests, nextId, nextVariationId,
                        otherCells>>
    ELSE /\ Len(chatPayloads) < MaxSends
         /\ LET base64Image == IF attachment # Null /\ readOk
                               THEN attachment ELSE Null
                payload == payloadOf(inputText, base64Image, chatBots[bot])
            IN /\ chatMessages' =
                    appendMessage(chatMessages, bot,
                        [sender |-> "user", text |-> inputText,
                         image |-> base64Image])
               /\ chatPayloads' = Append(chatPayloads, payload)
               /\ chatRequests' = chatRequests \cup
                    {[bot |-> bot, n |-> Len(chatPayloads) + 1, payload |-> payload]}
         /\ chatLoading' = [chatLoading EXCEPT ![bot] = TRUE]
         /\ lastOp' = Op("handleSendMessage", "posted", [bot |-> bot])
         /\ UNCHANGED <<viewMode, editorCells, adBaseImage, variations,
                        editRequests, variationRequests, nextId, nextVariationId,
                        customAdPrompt, nextBatch, variationOutcomes, serviceCall,
                        calmEditorSessionId, chatBots, nextSessionId, chatReply,
                        rendered,
                   browserCells, modalCells>>

\* handleSendMessage after the await of fetch, for request r answered by
\* response: the try block, the catch block and the finally block.
handleSendMessageDone(r, response) ==
    /\ chatRequests' = chatRequests \ {r}
    /\ chatMessages' = appendMessage(chatMessages, r.bot, botMessageFor(response))
    /\ chatLoading' = [chatLoading EXCEPT ![r.bot] = FALSE]
    /\ chatReply' = [bot |-> r.bot, response |-> response,
                     outcome |-> replyTo(response)]
    /\ lastOp' = Op("handleSendMessage",
                    IF replyTo(response).threw THEN "caught" ELSE "replied",
                    [bot |-> r.bot])
    /\ UNCHANGED <<viewMode, editorCells, adBaseImage, variations, editRequests,
                   variationRequests, nextId, nextVariationId, customAdPrompt,
                   nextBatch, variationOutcomes, serviceCall, chatCells, rendered,
                   browserCells, modalCells>>

ChatNext ==
    \/ \E kind \in SessionIdKinds : mountChatBot(kind)
    \/ \E bot \in 1..Len(chatBots) : \E inputText \in ChatTexts :
          \E attachment \in ChatAttachments : \E readOk \in BOOLEAN :
             handleSendMessage(bot, inputText, attachment, readOk)

SpecChat == Init /\ [][ChatNext]_vars

\* The send button of the chat window: disabled while a request is awaited
\* and while there is neither text nor attachment.
SendButton(bot, inputText, attachment, readOk) ==
    /\ ~chatLoading[bot]
    /\ trim(inputText) # "" \/ attachment # Null
    /\ handleSendMessage(bot, inputText, attachment, readOk)

\* SpecReply follows one exchange of one ChatBot: the page loads, the user
\* sends once, and the webhook answers with any response or not at all.
ReplyNext ==
    \/ \E kind \in SessionIdKinds : chatBots = <<>> /\ mountChatBot(kind)
    \/ \E bot \in 1..Len(chatBots) : \E inputText \in ChatTexts :
          \E attachment \in ChatAttachments : \E readOk \in BOOLEAN :
             chatReply = Null /\ SendButton(bot, inputText, attachment, readOk)
    \/ \E r \in chatRequests : \E response \in HttpResponses \cup {NetworkError} :
          handleSendMessageDone(r, response)

SpecReply == Init /\ [][ReplyNext]_vars

\* ------------------------------------------------------------- object URLs and the resize modal
\* What the handlers of the resize modal and of the attachment leave alone.
pageCells == <<viewMode, editorCells, adBaseImage, variations, editRequests,
               variationRequests, nextId, nextVariationId, customAdPrompt,
               nextBatch, variationOutcomes, serviceCall, chatCells, chatMessages,
               chatLoading, chatRequests, chatReply, rendered>>

\* URL.createObjectURL(blob): the URL made after `made` others
createObjectURL(blob, made) == [n |-> made + 1, blob |-> blob]

\* One effect of the shape
\*   useEffect(() => { if (dep) { const url = URL.createObjectURL(dep); ...;
\*                                return () => URL.revokeObjectURL(url); } }, [dep])
\* run at a commit: nothing when dep is the value it last ran for, otherwise
\* the cleanup of the last run and then the effect.
runUrlEffect(effect, dep, made) ==
    IF effect.dep = dep
    THEN [effect |-> effect, made |-> made, revoked |-> {}, created |-> {}]
    ELSE [effect |-> [dep |-> dep,
                      url |-> IF dep = Null THEN Null
                              ELSE Some(createObjectURL(Val(dep), made))],
          made |-> IF dep = Null THEN made ELSE made + 1,
          revoked |-> IF effect.url = Null THEN {} ELSE {Val(effect.url)},
          created |-> IF dep = Null THEN {} ELSE {createObjectURL(Val(dep), made)}]

\* useState of MagicResizeModal; deps is what its reset effect last ran for
\* and resetAt the number of handleResize calls made when it last reset.
MountedModal ==
    [selectedRatio |-> "9:16", isGenerating |-> FALSE, resultUrl |-> Null,
     error |-> Null, deps |-> Null, resetAt |-> 0]

\* useEffect(() => { if (isOpen) { setResultUrl(null); setError(null);
\*                                 setIsGenerating(false); } }, [isOpen, imageFile])
resetEffect(modal, isOpen, imageFile, calls) ==
    IF modal.deps = <<isOpen, imageFile>> THEN modal
    ELSE IF isOpen
         THEN [modal EXCEPT !.resultUrl = Null, !.error = Null,
                            !.isGenerating = FALSE, !.deps = <<isOpen, imageFile>>,
                            !.resetAt = calls]
         ELSE [modal EXCEPT !.deps = <<isOpen, imageFile>>]

\* The page after React has committed the last state change: MagicResizeModal
\* is mounted with renderAdGenerator's second return only, and the effects of
\* App and of the modal have run for the dependencies that changed.  What a
\* handleResize call sets once its component is unmounted is lost, so the
\* calls of an unmounted modal are dropped.
afterCommit ==
    LET mounted == viewMode = "generator" /\ adBaseImage # Null
        s1 == runUrlEffect(urlEffects.current, currentImage, urlsMade)
        s2 == runUrlEffect(urlEffects.original, originalImage, s1.made)
        s3 == runUrlEffect(urlEffects.adBase, adBaseImage, s2.made)
        s4 == runUrlEffect(urlEffects.preview,
                           IF mounted THEN imageToResize ELSE Null, s3.made)
        revoked == s1.revoked \cup s2.revoked \cup s3.revoked \cup s4.revoked
        created == s1.created \cup s2.created \cup s3.created \cup s4.created
    IN [urlEffects |-> [current |-> s1.effect, original |-> s2.effect,
                        adBase |-> s3.effect, preview |-> s4.effect],
        objectUrls |-> (objectUrls \ revoked) \cup created,
        urlsMade |-> s4.made,
        resizeModal |-> IF ~mounted THEN Null
                        ELSE resetEffect(IF resizeModal = Null THEN MountedModal
                                         ELSE resizeModal,
                                         resizeModalOpen, imageToResize,
                                         resizeCalls),
        resizeRequests |-> IF mounted THEN resizeRequests ELSE {}]

effectsPending ==
    afterCommit # [urlEffects |-> urlEffects, objectUrls |-> objectUrls,
                   urlsMade |-> urlsMade, resizeModal |-> resizeModal,
                   resizeRequests |-> resizeRequests]

\* React commits: mounts, unmounts and effects.
commitEffects ==
    /\ effectsPending
    /\ afterCommit.urlsMade <= MaxUrls
    /\ urlEffects' = afterCommit.urlEffects
    /\ objectUrls' = afterCommit.objectUrls
    /\ urlsMade' = afterCommit.urlsMade
    /\ resizeModal' = afterCommit.resizeModal
    /\ resizeRequests' = afterCommit.resizeRequests
    /\ UNCHANGED <<pageCells, lastOp, chatAttachment, resizeModalOpen,
                   imageToResize, resizeCalls>>

\* handleOpenMagicResize(fileOrUrl): a File, or the data URL of a variation
handleOpenMagicResize(fileOrUrl) ==
    IF "mime" \in DOMAIN fileOrUrl /\ dataURLtoFileThrows(fileOrUrl)
    THEN /\ lastOp' = Op("handleOpenMagicResize", "throws", Null)
         /\ UNCHANGED <<pageCells, browserCells, modalCells>>
    ELSE /\ imageToResize' = Some(IF "mime" \in DOMAIN fileOrUrl
                                  THEN dataURLtoFile(fileOrUrl, "resize-target")
                                  ELSE fileOrUrl)
         /\ resizeModalOpen' = TRUE
         /\ lastOp' = Op("handleOpenMagicResize", "ok", Null)
         /\ UNCHANGED <<pageCells, browserCells, resizeModal, resizeRequests,
                        resizeCalls>>

\* onClose={() => setResizeModalOpen(false)}
onClose ==
    /\ resizeModalOpen' = FALSE
    /\ lastOp' = Op("onClose", "ok", Null)
    /\ UNCHANGED <<pageCells, browserCells, imageToResize, resizeModal,
                   resizeRequests, resizeCalls>>

\* handleFileSelect of the ChatBot with a chosen file; the render that follows
\* shows the preview, <img src={URL.createObjectURL(attachment)}>.
handleFileSelect(file) ==
    /\ urlsMade < MaxUrls
    /\ chatAttachment' = Some(file)
    /\ objectUrls' = objectUrls \cup {createObjectURL(file, urlsMade)}
    /\ urlsMade' = urlsMade + 1
    /\ lastOp' = Op("handleFileSelect", "ok", Null)
    /\ UNCHANGED <<pageCells, urlEffects, modalCells>>

handleRemoveAttachment ==
    /\ chatAttachment' = Null
    /\ lastOp' = Op("handleRemoveAttachment", "ok", Null)
    /\ UNCHANGED <<pageCells, objectUrls, urlsMade, urlEffects, modalCells>>

\* onClick={() => setSelectedRatio(ratio)}
setSelectedRatio(ratio) ==
    /\ resizeModal # Null
    /\ resizeModal' = [resizeModal EXCEPT !.selectedRatio = ratio]
    /\ lastOp' = Op("setSelectedRatio", "ok", Null)
    /\ UNCHANGED <<pageCells, browserCells, resizeModalOpen, imageToResize,
                   resizeRequests, resizeCalls>>

\* handleResize up to its await; the function exists while the modal renders.
handleResize ==
    /\ resizeModal # Null /\ resizeModalOpen /\ imageToResize # Null
    /\ resizeCalls < MaxResizes
    /\ resizeModal' = [resizeModal EXCEPT !.isGenerating = TRUE, !.error = Null,
                                          !.resultUrl = Null]
    /\ resizeRequests' = resizeRequests \cup
                            {[n |-> resizeCalls + 1, imageFile |-> Val(imageToResize),
                              targetRatio |-> resizeModal.selectedRatio]}
    /\ resizeCalls' = resizeCalls + 1
    /\ lastOp' = Op("handleResize", "sent", Null)
    /\ UNCHANGED <<pageCells, browserCells, resizeModalOpen, imageToResize>>

\* handleResize after its await, for the call r answered by o: try
\* { setResultUrl } catch { setError } finally { setIsGenerating(false) }
handleResizeDone(r, o) ==
    /\ r \in resizeRequests
    /\ resizeModal # Null
    /\ resizeRequests' = resizeRequests \ {r}
    /\ resizeModal' =
         IF o.ok
         THEN [resizeModal EXCEPT !.resultUrl = Some(o.url), !.isGenerating = FALSE]
         ELSE [resizeModal EXCEPT
                  !.error = Some(IF o.message = "" THEN "Failed to resize image"
                                 ELSE o.message),
                  !.isGenerating = FALSE]
    /\ lastOp' = Op("handleResize", IF o.ok THEN "resolved" ELSE "failed", Null)
    /\ UNCHANGED <<pageCells, browserCells, resizeModalOpen, imageToResize,
                   resizeCalls>>

\* The controls of the modal and of the attachment.
ResizeBaseButton ==
    adGeneratorShown /\ ~resizeModalOpen /\ handleOpenMagicResize(Val(adBaseImage))
modalShown == resizeModal # Null /\ resizeModalOpen /\ imageToResize # Null
CloseButton == modalShown /\ onClose
ResizeVariationButton(url) ==
    adGeneratorShown /\ ~resizeModalOpen /\ handleOpenMagicResize(url)
RatioButton(ratio) == modalShown /\ setSelectedRatio(ratio)
GenerateResizeButton == modalShown /\ ~resizeModal.isGenerating /\ handleResize
RemoveAttachmentButton == chatAttachment # Null /\ handleRemoveAttachment

\* SpecUrls follows the object URLs of the page: uploads, edits and cursor
\* changes, the two views, the resize modal and the attachment of the chat.
\* A handler runs once React has committed the change before it.
UrlsNext ==
    \/ commitEffects
    \/ ~effectsPending /\ \E file \in UploadFiles : handleNewSession(file)
    \/ ~effectsPending /\ \E file \in UploadFiles : handleAdImageUpload(file)
    \/ ~effectsPending /\ handleUploadNew
    \/ ~effectsPending /\ \E p \in FilterPrompts : handleApplyFilter(p)
    \/ ~effectsPending /\ \E r \in editRequests :
          handleApplyFilterDone(r, [ok |-> TRUE, url |-> DataUrl("image/png", r.id)])
    \/ ~effectsPending /\ handleUndo
    \/ ~effectsPending /\ handleRedo
    \/ ~effectsPending /\ \E mode \in ViewModes : setViewMode(mode)
    \/ ~effectsPending /\ ResizeBaseButton
    \/ ~effectsPending /\ CloseButton
    \/ ~effectsPending /\ \E file \in UploadFiles : handleFileSelect(file)
    \/ ~effectsPending /\ RemoveAttachmentButton

SpecUrls == Init /\ [][UrlsNext]_vars

\* SpecResize opens, closes and reopens the resize modal on the base image
\* and on a variation, and lets the service answer the resize calls in any
\* order, each with an image or an error.
ResizeOutcomes(n) ==
    ServiceOutcomes("redimensión", n) \cup {[ok |-> FALSE, message |-> ""]}
ResizeRatios == {"1:1"}

ResizeNext ==
    \/ commitEffects
    \/ ~effectsPending /\ \E file \in SessionFiles : AdUploadInput(file)
    \/ ~effectsPending /\ StrategyButton("Texto", 0)
    \/ ~effectsPending /\ \E r \in variationRequests :
          processVariationDone(r, [ok |-> TRUE, url |-> DataUrl("image/png", r.id)])
    \/ ~effectsPending /\ ResizeBaseButton
    \/ ~effectsPending /\ \E url \in shownVariationUrls : ResizeVariationButton(url)
    \/ ~effectsPending /\ CloseButton
    \/ ~effectsPending /\ \E ratio \in ResizeRatios : RatioButton(ratio)
    \/ ~effectsPending /\ GenerateResizeButton
    \/ ~effectsPending /\ \E r \in resizeRequests : \E o \in ResizeOutcomes(r.n) :
          handleResizeDone(r, o)

SpecResize == Init /\ [][ResizeNext]_vars

\* ------------------------------------------------------------- message formatting
\* The text of an assistant message, one line, as the list of its pieces:
\* a run of text without markup, a markdown image, a markdown link, and a
\* bare URL that ends in an image extension.
TextPiece == [k |-> "text", s |-> "Mira esto: "]
ImagePiece == [k |-> "mdimage", alt |-> "logo", url |-> "https://cdn.example.com/logo.png"]
LinkPiece == [k |-> "mdlink", text |-> "la guía", url |-> "https://example.com/guia"]
LinkToImagePiece == [k |-> "mdlink", text |-> "foto", url |-> "https://cdn.example.com/a.webp"]
BareImagePiece == [k |-> "rawimage", url |-> "https://cdn.example.com/foto.jpg"]
Pieces == {TextPiece, ImagePiece, LinkPiece, LinkToImagePiece, BareImagePiece}
MessageTexts == UNION {[1..n -> Pieces] : n \in 1..MaxTokens}

\* The elements formatMessage returns.
plain(chars) == [k |-> "plain", s |-> chars]
image(alt, url) == [k |-> "image", alt |-> alt, url |-> url]
link(text, url) == [k |-> "link", text |-> text, url |-> url]
\* The characters of a piece that is pushed as it is.
charsOf(piece) ==
    CASE piece.k = "text" -> piece.s
      [] piece.k = "mdimage" -> <<"![", piece.alt, "](", piece.url, ")">>
      [] piece.k = "mdlink" -> <<"[", piece.text, "](", piece.url, ")">>
      [] piece.k = "rawimage" -> piece.url

\* where a match of rawImageRegex can start (https?:\/\/) and end
\* (\.(?:png|jpg|jpeg|gif|webp)) in a text without markdown images
holdsUrl(piece) == piece.k \in {"mdlink", "rawimage"}
endsInImageExtension(piece) == piece.k = "rawimage" \/ piece = LinkToImagePiece

flatten(lists) ==
    LET F[n \in 0..Len(lists)] == IF n = 0 THEN <<>> ELSE F[n - 1] \o lists[n]
    IN F[Len(lists)]

\* parts.map((part, index) => <span>{part}</span>) over text.split(imageRegex)
spansOfSplit(text) ==
    flatten([n \in 1..Len(text) |->
                IF text[n].k = "mdimage"
                THEN <<plain(text[n].alt), plain(text[n].url)>>
                ELSE <<plain(charsOf(text[n]))>>])

\* the second replace: markdown links of the remaining text
linksOf(remaining) ==
    [n \in 1..Len(remaining) |->
        IF remaining[n].k = "mdlink"
        THEN link(remaining[n].text, remaining[n].url)
        ELSE plain(charsOf(remaining[n]))]

\* parts.length > 1
hasMarkdownImage(text) == \E n \in 1..Len(text) : text[n].k = "mdimage"

\* formatMessage(text)
formatMessage(text) ==
    IF hasMarkdownImage(text) THEN spansOfSplit(text)
    ELSE LET starts == {n \in 1..Len(text) : holdsUrl(text[n])}
             ends == {n \in 1..Len(text) : endsInImageExtension(text[n])}
             matches == {n \in ends : \E m \in starts : m <= n}
         IN IF matches = {} THEN linksOf(text)
            ELSE LET last == CHOOSE n \in matches : \A m \in matches : m <= n
                     first == CHOOSE n \in starts : \A m \in starts : n <= m
                     before == [n \in 1..(first - 1) |-> plain(charsOf(text[n]))]
                     after == linksOf(SubSeq(text, last + 1, Len(text)))
                 IN IF first = last /\ text[first].k = "rawimage"
                    THEN before \o <<image(text[first].url, text[first].url)>> \o after
                    ELSE IF first = last
                    THEN before
                         \o <<plain(<<"[", text[first].text, "](">>),
                              image(text[first].url, text[first].url)>>
                         \o linksOf(<<[k |-> "text", s |-> ")"]>>) \o after
                    ELSE before
                         \o <<[k |-> "garbled",
                               s |-> [n \in 1..(last - first + 1) |->
                                         charsOf(text[first + n - 1])]]>>
                         \o after

\* An assistant message is rendered.
renderBotMessage(text) ==
    /\ rendered' = [text |-> text, elements |-> formatMessage(text)]
    /\ UNCHANGED <<viewMode, editorCells, adBaseImage, variations, editRequests,
                   variationRequests, nextId, nextVariationId, lastOp,
                   customAdPrompt, nextBatch, variationOutcomes, serviceCall,
                   chatCells, chatMessages, chatLoading, chatRequests, chatReply,
                   browserCells, modalCells>>

FormatNext == \E text \in MessageTexts : renderBotMessage(text)

SpecFormat == Init /\ [][FormatNext]_vars

\* SpecTalk runs the conversation of one ChatBot: sends, also while earlier
\* requests are awaited, and responses in any order.
TalkResponses ==
    {[status |-> 200, contentType |-> "application/json", body |-> BodyHello],
     [status |-> 200, contentType |-> "application/json", body |-> BodyNullItem],
     [status |-> 500, contentType |-> "text/plain", body |-> BodyPlain],
     NetworkError}

TalkNext ==
    \/ \E kind \in SessionIdKinds : chatBots = <<>> /\ mountChatBot(kind)
    \/ \E bot \in 1..Len(chatBots) : \E inputText \in ChatTexts :
          \E attachment \in ChatAttachments : \E readOk \in BOOLEAN :
             handleSendMessage(bot, inputText, attachment, readOk)
    \/ \E r \in chatRequests : \E response \in TalkResponses :
          handleSendMessageDone(r, response)

SpecTalk == Init /\ [][TalkNext]_vars

\* ------------------------------------------------------------- editor and generator
\* SpecSession runs the edit requests of the editor next to the variations
\* started one at a time: every handler, in any state.
SessionPromptInputs == {" ", "cambia el color"}
SessionCustomInputs == {" ", "fondo de playa"}

SessionNext ==
    \/ \E file \in SessionFiles : handleAdImageUpload(file)
    \/ \E mode \in ViewModeInputs : setViewMode(mode)
    \/ \E offset \in Clicks : handleImageClick(offset)
    \/ \E value \in SessionPromptInputs : setPrompt(value)
    \/ handleGenerate
    \/ \E r \in editRequests : \E o \in ServiceOutcomes(r.context, r.id) :
          handleGenerateDone(r, o)
    \/ \E p \in FilterPrompts : handleApplyFilter(p)
    \/ \E r \in editRequests : \E o \in ServiceOutcomes(r.context, r.id) :
          handleApplyFilterDone(r, o)
    \/ \E p \in AdjustmentPrompts : handleApplyAdjustment(p)
    \/ \E r \in editRequests : \E o \in ServiceOutcomes(r.context, r.id) :
          handleApplyAdjustmentDone(r, o)
    \/ \E ctxOk \in BOOLEAN : handleApplyCrop(ctxOk)
    \/ \E value \in SessionCustomInputs : setCustomAdPrompt(value)
    \/ handleGenerateCustom
    \/ \E r \in variationRequests : \E o \in ServiceOutcomes("variacion-ad", r.id) :
          processVariationDone(r, o)

SpecSession == Init /\ [][SessionNext]_vars

\* ------------------------------------------------------------- properties
LoadOps == {"handleNewSession", "handleAdImageUpload", "handleEditVariation"}
EditDoneOps == {"handleGenerateDone", "handleApplyFilterDone",
                "handleApplyAdjustmentDone"}
\* The step is a load, or a commit, that went through.
Loaded == lastOp'.op \in LoadOps /\ lastOp'.res = "ok"
Committed == lastOp'.res = "committed"
\* The edit request whose continuation the step runs.
Completed == editRequests \ editRequests'
\* The image a commit step appended.
newImage == history'[Len(history')]

\* C1: whenever the history is non-empty the cursor is within
\* [0, history.length - 1].
C1_CursorInRange ==
    Len(history) > 0 => (0 <= historyIndex /\ historyIndex <= Len(history) - 1)

\* C1 witness: an edit request has committed a second image asynchronously
\* and the cursor is on it.
C1_Witness ==
    /\ lastOp.op \in EditDoneOps
    /\ lastOp.res = "committed"
    /\ Len(history) >= 2
    /\ historyIndex = Len(history) - 1

\* C2 (as claimed): no step other than a load or a new-upload alters
\* history[0] of a non-empty history; commits, completing asynchronously
\* or not, undo, redo and reset leave the loaded file at index 0.
C2_OriginalKept ==
    [][(Len(history) > 0 /\ ~Loaded /\ lastOp'.op # "handleUploadNew")
          => (Len(history') > 0 /\ history'[1] = history[1])]_vars

\* C3: a commit whose closure holds the current history and cursor c (nothing
\* ran between the last undo and the commit) leaves entries 0..c followed by
\* the new image, the cursor on the new last index c + 1, and nothing to redo.
C3_CommitTruncates ==
    [][(Committed /\ lastOp'.arg.fresh)
          => (/\ history' = Append(SubSeq(history, 1, historyIndex + 1), newImage)
              /\ newImage = [src |-> "generated", n |-> lastOp'.arg.id]
              /\ historyIndex' = historyIndex + 1
              /\ historyIndex' = Len(history') - 1
              /\ ~(historyIndex' < Len(history') - 1))]_vars

\* C3 witness: a commit has run right after undo left entries beyond the
\* cursor, and they are gone.
C3_Witness ==
    /\ lastOp.res = "committed"
    /\ lastOp.arg.fresh
    /\ lastOp.arg.dropped > 0
    /\ historyIndex = Len(history) - 1

\* C4 (as claimed): the completion of an edit request whose session has been
\* replaced since it left (the history is empty, or starts with another
\* file than the one the request was made on) changes neither history nor
\* historyIndex.
C4_StaleEditDropped ==
    [][\A r \in Completed :
          (Len(history) = 0 \/ history[1] # r.history[1])
             => (history' = history /\ historyIndex' = historyIndex)]_vars

\* C5 (as claimed): when an edit request completes successfully after only the
\* cursor moved while it was in flight, the commit is made against the current
\* cursor c: entries 0..c are kept, the new image is at c + 1, the cursor is
\* c + 1.
C5_CommitAtCurrentCursor ==
    [][\A r \in Completed :
          (Committed /\ r.history = history /\ r.historyIndex # historyIndex)
             => (/\ history' = Append(SubSeq(history, 1, historyIndex + 1), newImage)
                 /\ historyIndex' = historyIndex + 1)]_vars

\* C6: undo with the cursor at 0 (or an empty history) and redo with the cursor
\* at the last index (or an empty history) change neither history, cursor,
\* hotspot nor error message.
C6_UndoRedoNoop ==
    [][(\/ lastOp'.op = "handleUndo" /\ historyIndex <= 0
        \/ lastOp'.op = "handleRedo" /\ historyIndex >= Len(history) - 1)
          => UNCHANGED <<history, historyIndex, editHotspot, displayHotspot,
                         error>>]_vars

\* C6 witness: undo has run at cursor 0 with a hotspot selected and an error
\* message shown.
C6_Witness ==
    /\ lastOp.op = "handleUndo"
    /\ lastOp.res = "noop"
    /\ historyIndex = 0
    /\ editHotspot # Null
    /\ error # Null

\* C7: a load of file f leaves history = [f], cursor 0, no hotspot, no crop
\* selection and no error message.
C7_LoadResets ==
    [][Loaded
          => (/\ history' = <<lastOp'.arg.file>>
              /\ historyIndex' = 0
              /\ editHotspot' = Null
              /\ displayHotspot' = Null
              /\ crop' = Null
              /\ completedCrop' = Null
              /\ error' = Null)]_vars

\* C7 witness: a load has replaced a history of several entries while a
\* hotspot, a crop selection and an error message were set.
C7_Witness ==
    /\ lastOp.op \in LoadOps
    /\ lastOp.res = "ok"
    /\ lastOp.arg.dirty

\* Where repeated undo leaves cursor i: handleUndo until canUndo is false.
RECURSIVE UndoToStart(_)
UndoToStart(i) == IF i > 0 THEN UndoToStart(i - 1) ELSE i
\* Where repeated redo leaves cursor i in a history of n entries.
RECURSIVE RedoToEnd(_, _)
RedoToEnd(i, n) == IF i < n - 1 THEN RedoToEnd(i + 1, n) ELSE i

\* C8: reset on a non-empty history puts the cursor at 0 and leaves the
\* sequence as it is, so that redo reaches the last entry again; history and
\* cursor are those that undo repeated to the start gives.
C8_ResetKeepsHistory ==
    [][(lastOp'.op = "handleReset" /\ Len(history) > 0)
          => (/\ historyIndex' = 0
              /\ history' = history
              /\ historyIndex' = UndoToStart(historyIndex)
              /\ RedoToEnd(historyIndex', Len(history')) = Len(history) - 1)]_vars

\* C8 witness: reset has run with the cursor beyond 0 and there is something
\* to redo.
C8_Witness ==
    /\ lastOp.op = "handleReset"
    /\ lastOp.res = "ok"
    /\ lastOp.arg >= 1
    /\ historyIndex = 0
    /\ historyIndex < Len(history) - 1

\* C9 (as claimed): after every commit (localized edit, filter, adjustment,
\* crop) and after every undo or redo that moved the cursor, editHotspot and
\* displayHotspot are null.
C9_HotspotCleared ==
    [][(\/ Committed
        \/ lastOp'.op \in {"handleUndo", "handleRedo"} /\ lastOp'.res = "ok")
          => (editHotspot' = Null /\ displayHotspot' = Null)]_vars

\* C10 (as claimed): editHotspot is non-null only while the retouch tab is
\* the active one.
C10_HotspotOnlyInRetouch == editHotspot # Null => activeTab = "retouch"

\* C11: when an edit request fails, history and historyIndex stay as they
\* are, the error message is set, isLoading is false again, and the variations
\* list with its in-flight entries and their requests is untouched.
C11_EditFailureKeepsState ==
    [][(lastOp'.op \in EditDoneOps /\ lastOp'.res = "failed")
          => (/\ history' = history
              /\ historyIndex' = historyIndex
              /\ error' # Null
              /\ isLoading' = FALSE
              /\ variations' = variations
              /\ variationRequests' = variationRequests)]_vars

\* C11 witness: an edit request has failed while a variation was in flight.
C11_Witness ==
    /\ lastOp.op \in EditDoneOps
    /\ lastOp.res = "failed"
    /\ Len(history) > 0
    /\ error # Null
    /\ variationRequests # {}
    /\ \E k \in 1..Len(variations) : variations[k].loading

\* The empty and the whitespace-only instruction.
Blank == {"", " "}

\* C12: a handler whose local validation fails (handleGenerate without a
\* current image, with a blank instruction or without a hotspot;
\* handleApplyFilter and handleApplyAdjustment without a current image;
\* handleApplyCrop without a completed crop region; handleGenerateCustom with
\* a blank instruction) sends no request, and leaves history, cursor and the
\* variations list as they are.
C12_NoDispatchOnValidationFailure ==
    [][(\/ /\ lastOp'.op = "handleGenerate"
           /\ (currentImage = Null \/ prompt \in Blank \/ editHotspot = Null)
        \/ /\ lastOp'.op \in {"handleApplyFilter", "handleApplyAdjustment"}
           /\ currentImage = Null
        \/ /\ lastOp'.op = "handleApplyCrop"
           /\ completedCrop = Null
        \/ /\ lastOp'.op = "handleGenerateCustom"
           /\ customAdPrompt \in Blank)
          => (/\ editRequests' = editRequests
              /\ variationRequests' = variationRequests
              /\ history' = history
              /\ historyIndex' = historyIndex
              /\ variations' = variations)]_vars

\* C12 witness: handleGenerateCustom has run on a whitespace-only instruction
\* with a base image loaded, after handleGenerate was refused a
\* whitespace-only instruction with an image and a hotspot there.
C12_Witness ==
    /\ lastOp.op = "handleGenerateCustom"
    /\ lastOp.res = "rejected"
    /\ customAdPrompt = " "
    /\ adBaseImage # Null
    /\ prompt = " "
    /\ editHotspot # Null
    /\ error = Msg("Por favor ingresa una descripcion para tu edicion.")

\* The handlers that start variations.
StartOps == {"handleGenerateCustom", "handleGenerateStrategy", "handleGenerateMix"}
\* The identifiers of the variations of a list.
idsOf(list) == {list[k].id : k \in 1..Len(list)}

\* C13: a step that starts one variation (custom or strategy) or a mix puts
\* the new variations, one or MixSize of them, each in flight (loading, no
\* url, no error) and under an identifier of its own, at the head of the
\* list; behind them the list is the one there was before, same order and
\* same contents.
C13_NewVariationsAtHead ==
    [][(lastOp'.op \in StartOps /\ lastOp'.res = "ok")
          => LET n == IF lastOp'.op = "handleGenerateMix" THEN MixSize ELSE 1 IN
             /\ Len(variations') = n + Len(variations)
             /\ \A k \in 1..n :
                   /\ variations'[k].loading
                   /\ variations'[k].url = Null
                   /\ variations'[k].error = Null
                   /\ variations'[k].id \notin idsOf(variations)
             /\ Cardinality(idsOf(variations')) = Len(variations')
             /\ SubSeq(variations', n + 1, Len(variations')) = variations]_vars

\* C13 witness: a strategy variation has been started on top of a mix of
\* which some variations are resolved, some failed and some in flight.
C13_Witness ==
    /\ lastOp.op = "handleGenerateStrategy"
    /\ lastOp.res = "ok"
    /\ Len(variations) = MixSize + 1
    /\ variations[1].loading
    /\ \E k \in 2..Len(variations) : variations[k].url # Null
    /\ \E k \in 2..Len(variations) : variations[k].error # Null
    /\ \E k \in 2..Len(variations) : variations[k].loading

\* Every identifier a variation can get in a run.
VariationIds == 1..(MaxVariations + MixSize * MaxBatches)
\* The variation id is in the list and in flight.
InFlight(id) ==
    \E k \in 1..Len(variations) : variations[k].id = id /\ variations[k].loading

\* C14: every variation in the list that is in flight has its request with
\* the service; and, the service answering every request in the end, no
\* variation stays in flight forever: it settles or leaves the list.
C14_EveryVariationSettles ==
    /\ [](\A id \in VariationIds :
            InFlight(id) => \E r \in variationRequests : r.id = id)
    /\ \A id \in VariationIds : InFlight(id) ~> ~InFlight(id)

\* C14 witness: the variations of a mix and one started alone are all in the
\* list and none is in flight any more.
C14_Witness ==
    /\ lastOp.op = "processVariation"
    /\ Len(variations) = MixSize + 1
    /\ \A k \in 1..Len(variations) : ~variations[k].loading
    /\ variationRequests = {}

\* ------------------------------------------------------------- C15
\* C15: a variation changes at most once: a record that is in flight either
\* stays as it is or becomes resolved (url set, no error) or failed (error
\* set, no url) with loading false, and a record that is no longer in flight
\* never changes again.
settledFrom(v, w) ==
    /\ v.loading /\ ~w.loading
    /\ w.id = v.id /\ w.label = v.label /\ w.prompt = v.prompt
    /\ \/ w.url # Null /\ w.error = Null
       \/ w.url = Null /\ w.error # Null

C15_VariationChangesOnce ==
    [][\A k \in 1..Len(variations) : \A j \in 1..Len(variations') :
          variations'[j].id = variations[k].id =>
             \/ variations'[j] = variations[k]
             \/ settledFrom(variations[k], variations'[j])]_vars

\* C15 witness: a request is answered while other variations of the list are
\* already resolved and failed, and others are still in flight.
C15_Witness ==
    /\ lastOp.op = "processVariation"
    /\ \E k \in 1..Len(variations) :
          ~variations[k].loading /\ variations[k].url # Null
    /\ \E k \in 1..Len(variations) :
          ~variations[k].loading /\ variations[k].error # Null
    /\ Cardinality({k \in 1..Len(variations) : ~variations[k].loading}) >= 3
    /\ \E k \in 1..Len(variations) : variations[k].loading

\* ------------------------------------------------------------- C16
batchIds(b) == (MixSize * (b - 1) + 1)..(MixSize * b)
answersOf(ids) == {a \in variationOutcomes : a.id \in ids}
resolvedWith(v, id) ==
    ~v.loading /\ v.url = Some(DataUrl("image/png", id)) /\ v.error = Null
failedWith(v) ==
    ~v.loading /\ v.url = Null /\ v.error \in {Some(m) : m \in ServiceErrors}
listedAt(id) == {k \in 1..Len(variations) : variations[k].id = id}

\* C16: once the five requests of a mix are answered, three with an image
\* and two with an error in whatever order, the list holds exactly three
\* resolved and two failed variations of that mix, each with the outcome of
\* its own request.
C16_MixOfFiveThreeAndTwo ==
    \A b \in 1..nextBatch :
       LET answers == answersOf(batchIds(b)) IN
       (/\ {a.id : a \in answers} = batchIds(b)
        /\ Cardinality({a \in answers : a.ok}) = 3
        /\ Cardinality({a \in answers : ~a.ok}) = 2)
       =>
       /\ \A a \in answers :
             /\ Cardinality(listedAt(a.id)) = 1
             /\ \A k \in listedAt(a.id) :
                   IF a.ok THEN resolvedWith(variations[k], a.id)
                           ELSE failedWith(variations[k])
       /\ Cardinality({k \in 1..Len(variations) :
                          variations[k].id \in batchIds(b)
                          /\ ~variations[k].loading
                          /\ variations[k].url # Null}) = 3
       /\ Cardinality({k \in 1..Len(variations) :
                          variations[k].id \in batchIds(b)
                          /\ ~variations[k].loading
                          /\ variations[k].error # Null}) = 2

\* C16 witness: the five answers of the first mix are in, three images and
\* two errors, the errors having come for the second and the last variation
\* and an image having come last.
C16_Witness ==
    /\ nextBatch >= 1
    /\ answersOf(batchIds(1)) =
          {[id |-> 1, ok |-> TRUE], [id |-> 2, ok |-> FALSE],
           [id |-> 3, ok |-> TRUE], [id |-> 4, ok |-> TRUE],
           [id |-> 5, ok |-> FALSE]}
    /\ lastOp.op = "processVariation" /\ lastOp.res = "resolved"

\* ------------------------------------------------------------- C17
\* C17: when the request of a variation is answered and no listed variation
\* has its id (a new upload emptied the list meanwhile), the list stays as it
\* is, with no entry added, and no error is set.
C17_StaleCompletionIsIgnored ==
    [][\A r \in variationRequests \ variationRequests' :
          r.id \notin idsOf(variations) =>
             /\ variations' = variations
             /\ error' = error
             /\ lastOp'.op = "processVariation"]_vars

\* C17 witness: a request has just been answered, every answer so far was for
\* a variation the list no longer holds, and the list holds variations
\* started after the upload.
C17_Witness ==
    /\ lastOp.op = "processVariation"
    /\ variationOutcomes # {}
    /\ \A a \in variationOutcomes : a.id \notin idsOf(variations)
    /\ variations # <<>>
    /\ \E k \in 1..Len(variations) : variations[k].loading

\* ------------------------------------------------------------- C18
\* What a response is, by the order of the cases: blocked, image, stopped,
\* no image.
imagesOfFirst(response) ==
    IF response.candidates = <<>> THEN <<>>
    ELSE SelectSeq(response.candidates[1].parts, LAMBDA part : part.inlineData # Null)
reasonOfFirst(response) ==
    IF response.candidates = <<>> THEN "" ELSE response.candidates[1].finishReason
caseOf(response) ==
    IF response.blockReason # "" THEN "blocked"
    ELSE IF imagesOfFirst(response) # <<>> THEN "image"
    ELSE IF reasonOfFirst(response) \notin {"", "STOP"} THEN "stopped"
    ELSE "no image"
piecesOf(message) == {message[k] : k \in 1..Len(message)}

\* C18: the outcome of handleApiResponse follows the case of the response:
\* blocked gives the policy-block error with the reason; image gives
\* 'data:<mimeType>;base64,<data>' of the first image part of the first
\* candidate; stopped gives the abnormal-stop error with the finish reason;
\* no image gives the no-image error with the returned text when there is
\* one.  Errors of two different cases never have the same message.
C18_ResponseClassification ==
    serviceCall # Null =>
       LET response == serviceCall.response
           outcome == serviceCall.outcome
       IN /\ caseOf(response) = "blocked" =>
                /\ ~outcome.ok
                /\ outcome.message[1] = "La solicitud fue bloqueada. Razón: "
                /\ response.blockReason \in piecesOf(outcome.message)
          /\ caseOf(response) = "image" =>
                /\ outcome.ok
                /\ outcome.url =
                      <<"data:", Val(imagesOfFirst(response)[1].inlineData).mimeType,
                        ";base64,", Val(imagesOfFirst(response)[1].inlineData).data>>
          /\ caseOf(response) = "stopped" =>
                /\ ~outcome.ok
                /\ outcome.message[1] = "La generación de imagen para "
                /\ reasonOfFirst(response) \in piecesOf(outcome.message)
          /\ caseOf(response) = "no image" =>
                /\ ~outcome.ok
                /\ outcome.message[1] = "El modelo de IA no devolvió una imagen para "
                /\ response.text \notin Blank =>
                      response.text \in piecesOf(outcome.message)
          /\ \A other \in Responses :
                (caseOf(other) # caseOf(response) /\ ~outcome.ok) =>
                   LET otherOutcome == handleApiResponse(other, serviceCall.context)
                   IN otherOutcome.ok \/ otherOutcome.message # outcome.message

\* C18 witness: a response that has a block reason, an image part and an
\* abnormal finish reason at once was classified.
C18_Witness ==
    /\ serviceCall # Null
    /\ serviceCall.response.blockReason # ""
    /\ imagesOfFirst(serviceCall.response) # <<>>
    /\ reasonOfFirst(serviceCall.response) = "SAFETY"
    /\ ~serviceCall.outcome.ok

\* ------------------------------------------------------------- C19
\* C19: generateResizedImage sends aspect ratio 3:4 for the target 4:5, and
\* the target itself for 1:1 and for 9:16.
C19_AspectRatioDispatched ==
    (serviceCall # Null /\ serviceCall.fn = "generateResizedImage") =>
       /\ serviceCall.targetRatio = "4:5" =>
             serviceCall.config = Some([aspectRatio |-> "3:4"])
       /\ serviceCall.targetRatio = "1:1" =>
             serviceCall.config = Some([aspectRatio |-> "1:1"])
       /\ serviceCall.targetRatio = "9:16" =>
             serviceCall.config = Some([aspectRatio |-> "9:16"])

\* C19 witness: a resize to 4:5 was sent and answered with an image.
C19_Witness ==
    /\ serviceCall # Null
    /\ serviceCall.fn = "generateResizedImage"
    /\ serviceCall.targetRatio = "4:5"
    /\ serviceCall.outcome.ok

\* ------------------------------------------------------------- C20
\* C20: the key 'calmEditorSessionId' is written only while it is absent and
\* keeps its value from then on, one identifier at most is ever created, and
\* every payload posted, from whichever ChatBot mount, carries the value
\* stored under the key.
C20_SessionIdCreatedOnce ==
    /\ [][calmEditorSessionId' # calmEditorSessionId =>
             calmEditorSessionId = Null /\ calmEditorSessionId' # Null]_vars
    /\ [](nextSessionId <= 1)
    /\ [](\A k \in 1..Len(chatPayloads) :
             calmEditorSessionId = Some(chatPayloads[k].sessionId))

\* C20 witness: payloads were posted from the mount that created the
\* identifier and from a later mount that read it.
C20_Witness ==
    /\ Len(chatBots) >= 2
    /\ Len(chatPayloads) >= 2
    /\ lastOp.op = "handleSendMessage" /\ lastOp.res = "posted"
    /\ lastOp.arg.bot = Len(chatBots)
    /\ calmEditorSessionId = Some(chatPayloads[1].sessionId)
    /\ nextSessionId = 1

\* ------------------------------------------------------------- C21
MessageKeys == <<"output", "text", "message", "response">>
hasMessageField(item) ==
    item.t = "obj" /\ \E k \in 1..Len(MessageKeys) : truthy(get(item, MessageKeys[k]))
firstSetField(item) ==
    LET set == {k \in 1..Len(MessageKeys) : truthy(get(item, MessageKeys[k]))}
    IN get(item, MessageKeys[CHOOSE k \in set : \A j \in set : k <= j]).s
\* The output a text holds when it is itself the JSON text of an object with
\* an output, or of an array whose first element is one; else the text.
outputInside(text) ==
    LET value == JSONparse(text) IN
    IF value.t = "obj" /\ truthy(get(value, "output"))
    THEN get(value, "output").s
    ELSE IF value.t = "arr" /\ value.items # <<>> /\ value.items[1].t = "obj"
            /\ truthy(get(value.items[1], "output"))
         THEN get(value.items[1], "output").s
         ELSE text

\* C21: for an OK response, a non-empty JSON array shows the first set one of
\* output, text, message, response of its first element, a JSON object shows
\* its own, any other content type shows the body as it is, and in each case
\* a text that is the JSON text of an array or object with an output shows
\* that output.  '[{"output":"hello"}]' shows 'hello', a plain text shows
\* itself and '{"output":"nested"}' shows 'nested'.
C21_DisplayTextOrder ==
    (chatReply # Null /\ chatReply.response.status = 200) =>
       LET body == chatReply.response.body
           json == chatReply.response.contentType = "application/json"
           data == JSONparse(body)
           outcome == chatReply.outcome
       IN /\ (json /\ data.t = "arr" /\ data.items # <<>>
                   /\ hasMessageField(data.items[1])) =>
                (~outcome.threw
                 /\ outcome.text = outputInside(firstSetField(data.items[1])))
          /\ (json /\ hasMessageField(data)) =>
                (~outcome.threw /\ outcome.text = outputInside(firstSetField(data)))
          /\ ~json => (~outcome.threw /\ outcome.text = outputInside(body))
          /\ body = BodyHello => (~outcome.threw /\ outcome.text = "hello")
          /\ (body = BodyPlain /\ ~json) =>
                (~outcome.threw /\ outcome.text = BodyPlain)
          /\ body = BodyNested => (~outcome.threw /\ outcome.text = "nested")
          /\ (body = BodyNestedQuoted /\ json) =>
                (~outcome.threw /\ outcome.text = "nested")

\* C21 witness: a JSON array whose first element has an output that is itself
\* the JSON text of an object with an output was answered and shown.
C21_Witness ==
    /\ chatReply # Null
    /\ chatReply.response =
          [status |-> 200, contentType |-> "application/json",
           body |-> BodyOutputHoldsNested]
    /\ chatMessages[1][Len(chatMessages[1])] =
          [sender |-> "bot", text |-> "nested", image |-> Null]

\* ------------------------------------------------------------- C22
\* An OK response under a JSON content type whose body is no JSON, or is an
\* array whose first element is null or has none of the message fields set,
\* or is an object with none of them set.
unexpectedShape(response) ==
    LET data == JSONparse(response.body) IN
    /\ response.status = 200
    /\ response.contentType = "application/json"
    /\ \/ data = SyntaxError
       \/ data.t = "arr" /\ data.items # <<>> /\ ~hasMessageField(data.items[1])
       \/ data.t = "obj" /\ ~hasMessageField(data)

\* C22: an OK response whose body does not parse or has an unexpected shape
\* ends in an assistant message that holds the raw response text, and the
\* request is not reported as failed.
C22_ParseFailureShowsRawText ==
    (chatReply # Null /\ unexpectedShape(chatReply.response)) =>
       /\ ~chatReply.outcome.threw
       /\ chatMessages[chatReply.bot][Len(chatMessages[chatReply.bot])] =
             [sender |-> "bot", text |-> chatReply.response.body, image |-> Null]

\* ------------------------------------------------------------- C23
AssistantTexts ==
    {"hello", <<"Error de conexión: ", 500>>,
     "Lo siento, hubo un problema al conectar con el servidor."}
appendedTo(old, new) ==
    Len(new) = Len(old) + 1 /\ SubSeq(new, 1, Len(old)) = old

\* C23: the messages of a ChatBot only grow at the end.  A send that is
\* accepted appends exactly one user message; the end of its request,
\* whether answered, answered with an HTTP error or failed, appends exactly
\* one assistant message and leaves isLoading false; nothing else changes
\* the messages.
C23_MessagesAppendOnly ==
    [][\A bot \in 1..Len(chatMessages) :
          LET old == chatMessages[bot]
              new == chatMessages'[bot]
          IN /\ Len(chatMessages') >= Len(chatMessages)
             /\ IF chatPayloads' # chatPayloads /\ lastOp'.arg.bot = bot
                THEN /\ appendedTo(old, new)
                     /\ new[Len(new)].sender = "user"
                ELSE IF chatRequests' # chatRequests /\ lastOp'.arg.bot = bot
                THEN /\ appendedTo(old, new)
                     /\ new[Len(new)].sender = "bot"
                     /\ new[Len(new)].text \in AssistantTexts
                     /\ ~chatLoading'[bot]
                ELSE new = old]_vars

\* C23 witness: two sends were accepted while the first was still awaited,
\* both requests have ended, one of them in the catch block, and the
\* conversation holds the greeting, the two user messages and the two
\* assistant messages.
C23_Witness ==
    /\ Len(chatBots) = 1
    /\ chatRequests = {}
    /\ lastOp.op = "handleSendMessage" /\ lastOp.res = "caught"
    /\ Len(chatMessages[1]) = 5
    /\ chatMessages[1][2].sender = "user" /\ chatMessages[1][3].sender = "user"
    /\ chatMessages[1][4].sender = "bot" /\ chatMessages[1][5].sender = "bot"
    /\ ~chatLoading[1]

\* ------------------------------------------------------------- C30
\* C30: every payload posted has a message that is not blank or an image,
\* and every user message has a text that is not blank or an image.
C30_NoEmptySend ==
    /\ \A k \in 1..Len(chatPayloads) :
          chatPayloads[k].message \notin Blank \/ chatPayloads[k].image # Null
    /\ \A bot \in 1..Len(chatMessages) : \A k \in 1..Len(chatMessages[bot]) :
          chatMessages[bot][k].sender = "user" =>
             (chatMessages[bot][k].text \notin Blank
              \/ chatMessages[bot][k].image # Null)

\* ------------------------------------------------------------- C24
\* What the claim expects of one piece.
elementFor(piece) ==
    CASE piece.k = "text" -> plain(piece.s)
      [] piece.k = "mdimage" -> image(piece.alt, piece.url)
      [] piece.k = "mdlink" -> link(piece.text, piece.url)
      [] piece.k = "rawimage" -> image(piece.url, piece.url)

\* C24: formatMessage gives an embedded image for every markdown image and
\* every bare URL of an image, a hyperlink for every other markdown link and
\* plain text, unchanged and in place, for the rest.
C24_FormatMessageElements ==
    rendered # Null =>
       rendered.elements = [n \in 1..Len(rendered.text) |-> elementFor(rendered.text[n])]

\* ------------------------------------------------------------- C25
\* The blobs the page shows: the current and the original image of the
\* editor, the base image of the generator, the image of the resize modal
\* while the modal is mounted, and the attachment of the chat.
displayedBlobs ==
    <<currentImage, originalImage, adBaseImage,
      IF resizeModal # Null THEN imageToResize ELSE Null, chatAttachment>>

\* C25: once React has committed, every object URL that is not revoked
\* belongs to a blob the page shows now, and there are no more such URLs
\* than blobs shown.
C25_ObjectUrlsRevoked ==
    ~effectsPending =>
       /\ \A u \in objectUrls : \E k \in 1..5 : displayedBlobs[k] = Some(u.blob)
       /\ Cardinality(objectUrls)
             <= Cardinality({k \in 1..5 : displayedBlobs[k] # Null})

C27_VariationShapes ==
    \A k \in 1..Len(variations) :
       LET v == variations[k] IN
       \/ v.loading /\ v.url = Null /\ v.error = Null
       \/ ~v.loading /\ v.url # Null /\ v.error = Null
       \/ ~v.loading /\ v.url = Null /\ v.error # Null /\ v.error # Some("")

C27_Witness ==
    /\ lastOp.op = "processVariation" /\ lastOp.res = "failed"
    /\ \E k \in 1..Len(variations) :
          ~variations[k].loading /\ variations[k].error = Some("Error")

C29_NoStaleResizeResult ==
    [][\A r \in resizeRequests \ resizeRequests' :
          (/\ resizeModal # Null /\ resizeModal' # Null
           /\ (r.n <= resizeModal.resetAt \/ Some(r.imageFile) # imageToResize))
          => /\ resizeModal'.resultUrl = resizeModal.resultUrl
             /\ resizeModal'.error = resizeModal.error
             /\ resizeModal'.isGenerating = resizeModal.isGenerating]_vars
====
